---- MODULE Spec2Model ----
(***************************************************************************)
(* A model of the fylge marker store: the hybrid logical clock             *)
(* (fylge-core/hlc.rs), the event log and entity view (fylge-db,           *)
(* fylge-core/storage.rs), the LWW materializer and the contiguous         *)
(* checkpoint (fylge-replication), the pull replicator (pull.rs) and the   *)
(* command handlers of the server (fylge-server/routes).                   *)
(*                                                                         *)
(* The module holds several specifications over one set of variables:      *)
(*   SpecHlc   one Hlc instance driven by now() and receive(remote);       *)
(*   SpecCkpt  CheckpointManager::update_contiguous on bounded batches;    *)
(*   SpecMat   EntityMaterializer::materialize on bounded event lists;     *)
(*   SpecLog   concurrent append_local / append calls on one event store;  *)
(*   Spec      two nodes, each with its clock, log, view, checkpoints,     *)
(*             command handlers and replicator, pulling from each other;   *)
(*   SpecSync  the replicator of one node handed responses of any shape;   *)
(*   SpecView  one entity view to which events are applied in any order.   *)
(* A specification leaves the variables of the others at their initial     *)
(* values.                                                                 *)
(***************************************************************************)
EXTENDS Integers, Sequences, FiniteSets, TLC

VARIABLES
    \* ---- SpecHlc: one Hlc instance
    last_timestamp,   \* Hlc.last_timestamp (the value under the mutex)
    hlc_returned,     \* the timestamps successful now()/receive() calls returned, in order
    hlc_call,         \* the latest call: its kind, inputs, the previous `last`, the result
    \* ---- SpecCkpt: update_contiguous
    ck_checkpoint,    \* the ReplicationCheckpoint being updated (node -> last seq)
    ck_batch,         \* the batch of events handed to update_contiguous
    ck_peer,          \* the node_id argument
    ck_applied,       \* how often update_contiguous was applied to ck_batch (0, 1, 2)
    ck_before,        \* the checkpoint before the first application of ck_batch
    ck_first,         \* the checkpoint after the first application of ck_batch
    ck_scenario,      \* progress in the scenario [1,2,4,5], then [3], then [4,5]
    \* ---- SpecMat: materialize
    mat_events,       \* the collection handed to materialize, in iteration order
    mat_result,       \* what materialize returned
    mat_done,         \* whether materialize has been called
    \* ---- SpecLog: one event store, concurrent append_local calls
    log_events,       \* EVENTS_TABLE: the committed events
    log_sequences,    \* SEQUENCES_TABLE: node -> committed high-watermark
    log_writer,       \* the tasks whose write transaction is open (at most one)
    log_task,         \* per task: its position, the sequence it read and was assigned
    \* ---- Spec, SpecSync: the nodes
    clock,            \* node -> the reading of its system clock (system_time_millis)
    state_hlc,        \* node -> Hlc.last_timestamp of AppState.hlc
    events_table,     \* node -> EVENTS_TABLE, the set of logged events
    sequences_table,  \* node -> SEQUENCES_TABLE (origin node -> high-watermark)
    entities_table,   \* node -> ENTITIES_TABLE (entity id -> Entity, present ids only)
    checkpoints_table,\* node -> CHECKPOINTS_TABLE (peer -> saved ReplicationCheckpoint)
    handler,          \* node -> slot -> the create_marker/delete_marker request in flight
    replicator,       \* node -> the position of its replicator in sync_from_peer
    uuids,            \* how many Uuid::new_v4() values have been drawn
    \* ---- SpecView: one entity view
    view_table,       \* ENTITIES_TABLE of the view
    view_applied,     \* the events applied to the view so far
    view_call,        \* the latest call: its kind, the view before it, its event,
                      \* and what the replicator had read before it
    view_pending,     \* the event the replicator has read the entity of and is
                      \* about to upsert, with what it read
    view_unconditional, \* the view of a replicator that upserts every event
    \* ---- SpecSync: the deliveries made to the replicator
    sync_replay,      \* the response delivered last, whether it is delivered for the
                      \* first or the second time, the stores after its first delivery
    \* ---- SpecCreate: the create_marker requests of one node
    create_call,      \* the latest request: its form, the stores before it, its response
    \* ---- SpecStore: one event log kept in both implementations of EventStore
    store_events,     \* RedbEventStore: EVENTS_TABLE
    store_sequences,  \* RedbEventStore: SEQUENCES_TABLE
    mem_events,       \* InMemoryEventStore.events, the Vec in insertion order
    mem_sequences,    \* InMemoryEventStore.sequences
    overflow_checks,  \* whether the build panics on integer overflow
    store_call,       \* the latest call on the stores and what it returned
    \* ---- SpecRun: the run loop of one replicator with two peers
    run_logs,         \* peer -> the event log the peer serves
    run_stores,       \* the stores of the replicator's node
    run,              \* the position of run and of its sync_once, the results so far
    run_shutdown,     \* whether the shutdown signal has been raised
    run_recovery,     \* peer -> the response of its call that failed part-way and
                      \* was not followed by a successful one yet; and the peer
                      \* and that response when the latest call made up for one
    \* ---- SpecRate: one RateLimiter
    rl_max_requests,  \* RateLimiter::max_requests
    rl_now,           \* what Instant::now() returns
    rl_requests,      \* RateLimiter::requests: ip -> (window start, count), as an Option
    rl_task,          \* task -> where it is in check, its ip and its `now`
    rl_log            \* the calls of check that have returned, in the order in
                      \* which they held the entry

hlcVars  == <<last_timestamp, hlc_returned, hlc_call>>
ckptVars == <<ck_checkpoint, ck_batch, ck_peer, ck_applied, ck_before, ck_first, ck_scenario>>
matVars  == <<mat_events, mat_result, mat_done>>
logVars  == <<log_events, log_sequences, log_writer, log_task>>
sysVars  == <<clock, state_hlc, events_table, sequences_table, entities_table,
              checkpoints_table, handler, replicator, uuids>>
viewVars == <<view_table, view_applied, view_call, view_pending, view_unconditional>>
replayVars == <<sync_replay>>
createVars == <<create_call>>
storeVars == <<store_events, store_sequences, mem_events, mem_sequences,
               overflow_checks, store_call>>
runVars == <<run_logs, run_stores, run, run_shutdown, run_recovery>>
rateVars == <<rl_max_requests, rl_now, rl_requests, rl_task, rl_log>>
vars     == <<hlcVars, ckptVars, matVars, logVars, sysVars, viewVars, replayVars,
              createVars, storeVars, runVars, rateVars>>

(***************************************************************************)
(* Bounds of the model.                                                    *)
(***************************************************************************)
\* The counter of HlcTimestamp is a u32; the model keeps its saturating
\* arithmetic with the maximum scaled down to CounterMax.
CounterMax == 2
\* Hlc.max_drift_ms (configurable through Hlc::with_max_drift), scaled down.
MaxDriftMs == 1
\* Physical clock readings (system_time_millis) range over 0..MaxPhysical.
MaxPhysical == 2
\* Successful calls made on the one Hlc instance of SpecHlc.
MaxHlcCalls == 2

NodeIds == {1, 2}
None == "None"

Max(a, b) == IF a >= b THEN a ELSE b

(***************************************************************************)
(* HlcTimestamp and its total order (hlc.rs 12-54).                        *)
(***************************************************************************)
HlcTimestamp(w, c, n) == [wall_time |-> w, counter |-> c, node_id |-> n]

\* HlcTimestamp::zero
HlcZero(n) == HlcTimestamp(0, 0, n)

\* An order that compares wall_time and counter only.
HlcLessNoNode(a, b) ==
    \/ a.wall_time < b.wall_time
    \/ /\ a.wall_time = b.wall_time
       /\ a.counter < b.counter

\* Ord for HlcTimestamp: wall_time, then counter, then node_id.
HlcLess(a, b) ==
    \/ a.wall_time < b.wall_time
    \/ /\ a.wall_time = b.wall_time
       /\ \/ a.counter < b.counter
          \/ /\ a.counter = b.counter
             /\ a.node_id < b.node_id

HlcLeq(a, b) == a = b \/ HlcLess(a, b)

\* u32::saturating_add(1)
SaturatingInc(c) == IF c >= CounterMax THEN CounterMax ELSE c + 1

\* A clock that stamps its timestamps with the id of the node after its own.
HlcNowForeignNode(last, physical, node) ==
    IF last.wall_time > physical + MaxDriftMs
    THEN [ok |-> FALSE, err |-> "ExcessiveDrift", ts |-> last]
    ELSE [ok |-> TRUE, err |-> None,
          ts |-> IF physical > last.wall_time
                 THEN HlcTimestamp(physical, 0, node + 1)
                 ELSE HlcTimestamp(last.wall_time, SaturatingInc(last.counter), node + 1)]

(***************************************************************************)
(* Hlc::now (hlc.rs 84-109): the result for a clock of node `node` whose   *)
(* last timestamp is `last` when the physical clock reads `physical`.      *)
(***************************************************************************)
HlcNow(last, physical, node) ==
    IF last.wall_time > physical + MaxDriftMs
    THEN [ok |-> FALSE, err |-> "ExcessiveDrift", ts |-> last]
    ELSE [ok |-> TRUE, err |-> None,
          ts |-> IF physical > last.wall_time
                 THEN HlcTimestamp(physical, 0, node)
                 ELSE HlcTimestamp(last.wall_time, SaturatingInc(last.counter), node)]

\* A receive without the drift check.
HlcReceiveNoDriftCheck(last, physical, remote, node) ==
    LET max_wall == Max(Max(physical, last.wall_time), remote.wall_time)
    IN [ok |-> TRUE, err |-> None,
        ts |-> IF max_wall = last.wall_time
               THEN HlcTimestamp(max_wall, SaturatingInc(last.counter), node)
               ELSE HlcTimestamp(max_wall, SaturatingInc(remote.counter), node)]

(***************************************************************************)
(* Hlc::receive (hlc.rs 113-157).                                          *)
(***************************************************************************)
HlcReceive(last, physical, remote, node) ==
    IF remote.wall_time > physical + MaxDriftMs
    THEN [ok |-> FALSE, err |-> "RemoteClockAhead", ts |-> last]
    ELSE LET max_wall == Max(Max(physical, last.wall_time), remote.wall_time)
             new_ts ==
                IF max_wall = physical /\ physical > last.wall_time
                                       /\ physical > remote.wall_time
                THEN HlcTimestamp(physical, 0, node)
                ELSE IF max_wall = last.wall_time /\ last.wall_time = remote.wall_time
                THEN HlcTimestamp(max_wall,
                                  SaturatingInc(Max(last.counter, remote.counter)), node)
                ELSE IF max_wall = last.wall_time
                THEN HlcTimestamp(max_wall, SaturatingInc(last.counter), node)
                ELSE HlcTimestamp(max_wall, SaturatingInc(remote.counter), node)
         IN [ok |-> TRUE, err |-> None, ts |-> new_ts]

(***************************************************************************)
(* SpecHlc: one Hlc instance of node HlcNode.  Every call reads the        *)
(* physical clock, which may return any value (SystemTime is not           *)
(* monotone); receive is handed any remote timestamp.                      *)
(***************************************************************************)
HlcNode == 1

PhysicalTimes == 0..MaxPhysical
RemoteTimestamps ==
    { HlcTimestamp(w, c, n) : w \in 0..(MaxPhysical + MaxDriftMs + 1),
                              c \in 0..CounterMax, n \in NodeIds }

NoCall == [kind |-> "none", ok |-> FALSE, err |-> None, prev |-> HlcZero(HlcNode),
           remote |-> HlcZero(HlcNode), physical |-> 0, ts |-> HlcZero(HlcNode)]

\* Hlc::new (hlc.rs 66-72)
InitHlcVars ==
    /\ last_timestamp = HlcZero(HlcNode)
    /\ hlc_returned = <<>>
    /\ hlc_call = NoCall

\* One call of now() on the instance.
Now(physical) ==
    /\ Len(hlc_returned) < MaxHlcCalls
    /\ LET r == HlcNow(last_timestamp, physical, HlcNode) IN
        /\ last_timestamp' = IF r.ok THEN r.ts ELSE last_timestamp
        /\ hlc_returned' = IF r.ok THEN Append(hlc_returned, r.ts) ELSE hlc_returned
        /\ hlc_call' = [kind |-> "now", ok |-> r.ok, err |-> r.err, prev |-> last_timestamp,
                        remote |-> HlcZero(HlcNode), physical |-> physical, ts |-> r.ts]
    /\ UNCHANGED <<ckptVars, matVars, logVars, sysVars, viewVars, replayVars, createVars,
                   storeVars, runVars, rateVars>>

\* One call of receive(remote) on the instance.
Receive(physical, remote) ==
    /\ Len(hlc_returned) < MaxHlcCalls
    /\ LET r == HlcReceive(last_timestamp, physical, remote, HlcNode) IN
        /\ last_timestamp' = IF r.ok THEN r.ts ELSE last_timestamp
        /\ hlc_returned' = IF r.ok THEN Append(hlc_returned, r.ts) ELSE hlc_returned
        /\ hlc_call' = [kind |-> "receive", ok |-> r.ok, err |-> r.err, prev |-> last_timestamp,
                        remote |-> remote, physical |-> physical, ts |-> r.ts]
    /\ UNCHANGED <<ckptVars, matVars, logVars, sysVars, viewVars, replayVars, createVars,
                   storeVars, runVars, rateVars>>

(***************************************************************************)
(* Events and entities (event.rs, entity.rs).  The marker data of an        *)
(* Upsert payload is one value `data` with the fields lat, lon, icon_id    *)
(* and label.  An f64 is either NaN or a number, a String the sequence of  *)
(* its characters, an Option the empty set or a singleton.                 *)
(***************************************************************************)
EventId(n, s) == [node_id |-> n, sequence |-> s]

F64(v) == [nan |-> FALSE, v |-> v]
NaN == [nan |-> TRUE, v |-> 0]

\* Payload::new and Payload::tombstone (event.rs 56-65)
UpsertPayload(d) == [type |-> "Upsert", data |-> d]
TombstonePayload == [type |-> "Tombstone"]

\* The marker data of the requests outside SpecCreate, and another one.
MarkerData ==
    [lat |-> F64(59), lon |-> F64(10), icon_id |-> <<"s", "h", "i", "p">>, label |-> {}]
OtherMarkerData ==
    [lat |-> F64(60), lon |-> F64(5), icon_id |-> <<"s", "h", "i", "p">>, label |-> {}]

\* Event::new
Event(id, entity_id, hlc, payload) ==
    [id |-> id, entity_id |-> entity_id, hlc |-> hlc, payload |-> payload]

\* Entity::from_event (entity.rs 28-51): a tombstone gives a deleted entity
\* with zeroed fields.
ZeroedData == [lat |-> F64(0), lon |-> F64(0), icon_id |-> <<>>, label |-> {}]
\* from_event without the tombstone branch
EntityFromEventNeverDeleted(e) ==
    [id |-> e.entity_id, data |-> IF e.payload.type = "Upsert" THEN e.payload.data ELSE ZeroedData,
     hlc |-> e.hlc, source_event |-> e.id, deleted |-> FALSE]

EntityFromEvent(e) ==
    IF e.payload.type = "Upsert"
    THEN [id |-> e.entity_id, data |-> e.payload.data, hlc |-> e.hlc,
          source_event |-> e.id, deleted |-> FALSE]
    ELSE [id |-> e.entity_id, data |-> ZeroedData, hlc |-> e.hlc,
          source_event |-> e.id, deleted |-> TRUE]

(***************************************************************************)
(* ReplicationCheckpoint (storage.rs 10-29): a map node -> last sequence,  *)
(* a missing entry reading 0.  The model keeps it as a total function;     *)
(* update never stores 0, so a 0 stands for the missing entry.             *)
(***************************************************************************)
LastSeqFor(checkpoint, node_id) == checkpoint[node_id]
CheckpointUpdate(checkpoint, node_id, seq) == [checkpoint EXCEPT ![node_id] = seq]

(***************************************************************************)
(* CheckpointManager::update_contiguous (checkpoint.rs 12-41).             *)
(***************************************************************************)
\* The batch sorted by sequence without the filter on the origin.
AllEventsSorted(events, node_id) ==
    SortSeq(events, LAMBDA a, b : a.id.sequence < b.id.sequence)
\* events.iter().filter(|e| e.id.node_id == node_id), sorted by sequence
NodeEventsSorted(events, node_id) ==
    SortSeq(SelectSeq(events, LAMBDA e : e.id.node_id = node_id),
            LAMBDA a, b : a.id.sequence < b.id.sequence)

\* The loop of lines 28-36 from position i with new_seq so far.
RECURSIVE ContiguousLoop(_, _, _)
ContiguousLoop(node_events, i, new_seq) ==
    IF i > Len(node_events) THEN new_seq
    ELSE IF node_events[i].id.sequence = new_seq + 1
         THEN ContiguousLoop(node_events, i + 1, node_events[i].id.sequence)
         ELSE IF node_events[i].id.sequence > new_seq + 1
              THEN new_seq                                   \* gap: break
              ELSE ContiguousLoop(node_events, i + 1, new_seq) \* already processed

\* A loop that takes the highest sequence of the batch, gaps or not.
UpdateContiguousNoGapCheck(checkpoint, node_id, events) ==
    LET node_events == NodeEventsSorted(events, node_id)
        current_seq == LastSeqFor(checkpoint, node_id)
        new_seq == IF node_events = <<>> THEN current_seq
                   ELSE Max(current_seq, node_events[Len(node_events)].id.sequence)
    IN  IF new_seq > current_seq THEN CheckpointUpdate(checkpoint, node_id, new_seq)
        ELSE checkpoint

\* A loop that counts the new events instead of following their sequences.
UpdateContiguousCounting(checkpoint, node_id, events) ==
    LET node_events == NodeEventsSorted(events, node_id)
        current_seq == LastSeqFor(checkpoint, node_id)
        fresh == SelectSeq(node_events, LAMBDA e : e.id.sequence > current_seq)
        new_seq == IF fresh = <<>> THEN current_seq ELSE current_seq + 1
    IN  IF new_seq > current_seq THEN CheckpointUpdate(checkpoint, node_id, new_seq)
        ELSE checkpoint

\* A loop result that is stored whether or not it exceeds the current value.
UpdateContiguousUnguarded(checkpoint, node_id, events) ==
    IF events = <<>> THEN checkpoint
    ELSE LET node_events == NodeEventsSorted(events, node_id)
         IN  CheckpointUpdate(checkpoint, node_id, ContiguousLoop(node_events, 1, 0))

UpdateContiguous(checkpoint, node_id, events) ==
    IF events = <<>> THEN checkpoint
    ELSE LET node_events == NodeEventsSorted(events, node_id)
             current_seq == LastSeqFor(checkpoint, node_id)
             new_seq == ContiguousLoop(node_events, 1, current_seq)
         IN  IF new_seq > current_seq
             THEN CheckpointUpdate(checkpoint, node_id, new_seq)
             ELSE checkpoint

(***************************************************************************)
(* SpecCkpt: update_contiguous applied to a checkpoint over the nodes      *)
(* CkNodes, with batches of at most MaxBatch events whose sequences are    *)
(* at most MaxBatchSeq.  Only the id of a batch event is read.             *)
(***************************************************************************)
MaxBatch == 4
MaxBatchSeq == 5
\* The checkpoint before the first batch holds at most MaxInitialSeq.
MaxInitialSeq == 1
ScenarioPeer == 7
OtherNode == 8
CkNodes == {ScenarioPeer, OtherNode}

CkEvent(n, s) == [id |-> EventId(n, s)]
CkPeerEvents == { CkEvent(ScenarioPeer, s) : s \in 1..MaxBatchSeq }
\* One event of the other node exercises the filter on node_id.
CkEvents == CkPeerEvents \cup { CkEvent(OtherNode, 1) }

RECURSIVE SeqsUpTo(_, _)
SeqsUpTo(S, n) ==
    IF n = 0 THEN { <<>> }
    ELSE LET shorter == SeqsUpTo(S, n - 1)
         IN  shorter \cup { Append(q, x) : q \in { r \in shorter : Len(r) = n - 1 }, x \in S }

CkBatches == SeqsUpTo(CkEvents, MaxBatch)
\* The batches that may follow a first batch: at most two events of the
\* peer, in the order of their sequences, as get_events_since returns them.
CkFollowBatches ==
    { q \in SeqsUpTo(CkPeerEvents, 2) :
        \A i, j \in 1..Len(q) : i < j => q[i].id.sequence < q[j].id.sequence }
CkInitialCheckpoints ==
    { [n \in CkNodes |-> IF n = ScenarioPeer THEN a ELSE b] :
        a \in 0..MaxInitialSeq, b \in 0..1 }

SeqsOfPeer(batch, node_id) ==
    { batch[i].id.sequence : i \in { j \in DOMAIN batch : batch[j].id.node_id = node_id } }

ScenarioBatch1 == << CkEvent(ScenarioPeer, 1), CkEvent(ScenarioPeer, 2),
                     CkEvent(ScenarioPeer, 4), CkEvent(ScenarioPeer, 5) >>
ScenarioBatch2 == << CkEvent(ScenarioPeer, 3) >>
ScenarioBatch3 == << CkEvent(ScenarioPeer, 4), CkEvent(ScenarioPeer, 5) >>

\* The inputs of the first call: any checkpoint, peer and batch of the bounds.
InitCkptVars ==
    /\ ck_checkpoint \in CkInitialCheckpoints
    /\ ck_batch \in CkBatches
    /\ ck_peer \in CkNodes
    /\ ck_applied = 0
    /\ ck_before = ck_checkpoint
    /\ ck_first = ck_checkpoint
    /\ ck_scenario = 0

\* The variables of SpecCkpt while another specification runs.
IdleCkptVars ==
    /\ ck_checkpoint = [n \in CkNodes |-> 0]
    /\ ck_batch = <<>>
    /\ ck_peer = ScenarioPeer
    /\ ck_applied = 0
    /\ ck_before = ck_checkpoint
    /\ ck_first = ck_checkpoint
    /\ ck_scenario = 0

\* The stage of the scenario "checkpoint of peer 7 at 0, batch [1,2,4,5],
\* then batch [3], then batch [4,5]" after `batch` is applied for `peer`
\* in stage `st` to the checkpoint `ckpt`.
ScenarioStep(st, peer, batch, ckpt) ==
    IF st = 0 /\ peer = ScenarioPeer /\ batch = ScenarioBatch1
              /\ LastSeqFor(ckpt, ScenarioPeer) = 0
    THEN 1
    ELSE IF st = 1 /\ peer = ScenarioPeer /\ batch = ScenarioBatch2 THEN 2
    ELSE IF st = 2 /\ peer = ScenarioPeer /\ batch = ScenarioBatch3 THEN 3
    ELSE 0

\* update_contiguous(&mut checkpoint, ck_peer, &ck_batch), the first call.
ApplyBatch ==
    /\ ck_applied = 0
    /\ ck_checkpoint' = UpdateContiguous(ck_checkpoint, ck_peer, ck_batch)
    /\ ck_first' = ck_checkpoint'
    /\ ck_applied' = 1
    /\ ck_scenario' = ScenarioStep(ck_scenario, ck_peer, ck_batch, ck_checkpoint)
    /\ UNCHANGED <<ck_batch, ck_peer, ck_before>>
    /\ UNCHANGED <<hlcVars, matVars, logVars, sysVars, viewVars, replayVars, createVars,
                   storeVars, runVars, rateVars>>

\* update_contiguous called once more with the same batch.
ApplyAgain ==
    /\ ck_applied = 1
    /\ ck_checkpoint' = UpdateContiguous(ck_checkpoint, ck_peer, ck_batch)
    /\ ck_applied' = 2
    /\ UNCHANGED <<ck_batch, ck_peer, ck_before, ck_first, ck_scenario>>
    /\ UNCHANGED <<hlcVars, matVars, logVars, sysVars, viewVars, replayVars, createVars,
                   storeVars, runVars, rateVars>>

\* A following batch for the same peer is applied to the checkpoint the
\* earlier batch left (pull.rs 136-139 on the next sync cycle).
ApplyFollowing(batch) ==
    /\ ck_applied = 1
    /\ ck_batch' = batch
    /\ ck_before' = ck_checkpoint
    /\ ck_checkpoint' = UpdateContiguous(ck_checkpoint, ck_peer, batch)
    /\ ck_first' = ck_checkpoint'
    /\ ck_scenario' = ScenarioStep(ck_scenario, ck_peer, batch, ck_checkpoint)
    /\ UNCHANGED <<ck_peer, ck_applied>>
    /\ UNCHANGED <<hlcVars, matVars, logVars, sysVars, viewVars, replayVars, createVars,
                   storeVars, runVars, rateVars>>

(***************************************************************************)
(* EntityMaterializer (materializer.rs 9-27).  Iterator::max_by_key keeps  *)
(* the last of several equally maximal elements.                           *)
(***************************************************************************)
RECURSIVE MaxByHlc(_, _, _)
MaxByHlc(events, i, best) ==
    IF i > Len(events) THEN best
    ELSE MaxByHlc(events, i + 1,
                  IF HlcLeq(best.hlc, events[i].hlc) THEN events[i] ELSE best)

\* An Option is the set of its values: {} for None, {x} for Some(x).
\* materialize taking the first of the events, whatever their HLC.
MaterializeFirst(events) ==
    IF events = <<>> THEN {} ELSE { EntityFromEvent(events[1]) }

Materialize(events) ==
    IF events = <<>> THEN {}
    ELSE { EntityFromEvent(MaxByHlc(events, 2, events[1])) }

\* should_replace(existing, new_event)
ShouldReplace(existing, new_event) == HlcLess(existing.hlc, new_event.hlc)

(***************************************************************************)
(* SpecMat: materialize on a collection of at most MaxMatEvents events of  *)
(* one entity.  The collections are those a log can hold: events with the  *)
(* same EventId are the same event, event.hlc.node_id = event.id.node_id,  *)
(* and two events of one node carry the same HLC only with the counter at  *)
(* its maximum, where Hlc::now repeats a timestamp.                        *)
(***************************************************************************)
MaxMatEvents == 3
MatEntity == "e1"
MatEventPool ==
    { Event(EventId(n, s), MatEntity, HlcTimestamp(w, c, n), p) :
        n \in NodeIds, s \in 1..2, w \in 1..2, c \in (CounterMax - 1)..CounterMax,
        p \in { UpsertPayload(MarkerData), TombstonePayload } }

LogCompatible(a, b) ==
    /\ a.id = b.id => a = b
    /\ (a.id # b.id /\ a.hlc = b.hlc) => a.hlc.counter = CounterMax

MatInputs ==
    { q \in SeqsUpTo(MatEventPool, MaxMatEvents) :
        \A i, j \in DOMAIN q : LogCompatible(q[i], q[j]) }

InitMatVars ==
    /\ mat_events \in MatInputs
    /\ mat_result = {}
    /\ mat_done = FALSE

IdleMatVars ==
    /\ mat_events = <<>>
    /\ mat_result = {}
    /\ mat_done = FALSE

MaterializeCall ==
    /\ ~mat_done
    /\ mat_result' = Materialize(mat_events)
    /\ mat_done' = TRUE
    /\ UNCHANGED mat_events
    /\ UNCHANGED <<hlcVars, ckptVars, logVars, sysVars, viewVars, replayVars, createVars,
                   storeVars, runVars, rateVars>>

\* The orderings of a collection.
Orderings(q) ==
    { [i \in DOMAIN q |-> q[f[i]]] : f \in Permutations(DOMAIN q) }

(***************************************************************************)
(* u64 arithmetic.  The sequence and node id additions of the event store  *)
(* are on u64: WrappingInc gives the sum where an overflowing addition     *)
(* wraps; where the build checks for overflow the call panics instead      *)
(* (OverflowPanics).                                                       *)
(***************************************************************************)
\* u64::MAX, scaled: above every sequence and node id of the model.
U64Max == 7

\* n + 1 on a u64 without overflow checks
WrappingInc(n) == (n + 1) % (U64Max + 1)

\* n + 1 overflows (since_seq + 1, line 138; current_seq + 1, line 229)
OverflowPanics(n) == n = U64Max

(***************************************************************************)
(* The event store (event_store.rs; storage.rs 123-201).  EVENTS_TABLE is  *)
(* a map keyed by EventId, kept as the set of its values; SEQUENCES_TABLE  *)
(* is a total function with 0 for a missing key.                           *)
(***************************************************************************)
TableInsert(events, event) == { e \in events : e.id # event.id } \cup { event }
HasKey(events, id) == \E e \in events : e.id = id

\* Database::begin_write waits while another write transaction is open
\* (in the in-memory store: the write locks of lines 186-187).
BeginWriteFreeForAll(writer) == TRUE

BeginWriteAllowed(writer) == writer = {}

\* An append that writes the event whether or not its key exists.
StoreAppendOverwrite(events, sequences, event) ==
    [inserted |-> TRUE,
     events |-> TableInsert(events, event),
     sequences |-> [sequences EXCEPT ![event.id.node_id] = event.id.sequence]]

\* EventStore::append (event_store.rs 44-95): no change when the key exists,
\* else the insert, and the high-watermark raised when the sequence exceeds it.
StoreAppend(events, sequences, event) ==
    IF HasKey(events, event.id)
    THEN [inserted |-> FALSE, events |-> events, sequences |-> sequences]
    ELSE [inserted |-> TRUE,
          events |-> TableInsert(events, event),
          sequences |-> IF event.id.sequence > sequences[event.id.node_id]
                        THEN [sequences EXCEPT ![event.id.node_id] = event.id.sequence]
                        ELSE sequences]

\* An append_local that reuses the high-watermark as the new sequence.
AppendLocalEventSameSeq(current_seq, node_id, entity_id, hlc, payload) ==
    Event(EventId(node_id, current_seq), entity_id, hlc, payload)

\* append_local, lines 223-252: the event built from the high-watermark read;
\* current_seq + 1 is a u64 addition (line 229).
AppendLocalEvent(current_seq, node_id, entity_id, hlc, payload) ==
    Event(EventId(node_id, WrappingInc(current_seq)), entity_id, hlc, payload)

(***************************************************************************)
(* SpecLog: MaxAppendTasks tasks each call append_local once for node      *)
(* LogNode on an empty store.  A call opens the write transaction, reads   *)
(* the high-watermark, and then either commits the event and the new       *)
(* high-watermark together or fails and drops the transaction.             *)
(***************************************************************************)
MaxAppendTasks == 3
LogNode == 1
AppendTasks == 1..MaxAppendTasks

InitLogVars ==
    /\ log_events = {}
    /\ log_sequences = [n \in NodeIds |-> 0]
    /\ log_writer = {}
    /\ log_task = [t \in AppendTasks |-> [pc |-> "ready", current_seq |-> 0, sequence |-> 0]]

\* begin_write and the read of the high-watermark (event_store.rs 212-227)
AppendLocalBegin(t) ==
    /\ log_task[t].pc = "ready"
    /\ BeginWriteAllowed(log_writer)
    /\ log_writer' = log_writer \cup {t}
    /\ log_task' = [log_task EXCEPT ![t] =
                      [pc |-> "in_txn", current_seq |-> log_sequences[LogNode], sequence |-> 0]]
    /\ UNCHANGED <<log_events, log_sequences>>
    /\ UNCHANGED <<hlcVars, ckptVars, matVars, sysVars, viewVars, replayVars, createVars,
                   storeVars, runVars, rateVars>>

\* the inserts and the commit (event_store.rs 229-259)
AppendLocalCommit(t) ==
    /\ log_task[t].pc = "in_txn"
    /\ LET event == AppendLocalEvent(log_task[t].current_seq, LogNode, t,
                                     HlcTimestamp(0, 0, LogNode), UpsertPayload(MarkerData))
       IN  /\ log_events' = TableInsert(log_events, event)
           /\ log_sequences' = [log_sequences EXCEPT ![LogNode] = event.id.sequence]
           /\ log_task' = [log_task EXCEPT ![t] =
                             [pc |-> "done", current_seq |-> log_task[t].current_seq,
                              sequence |-> event.id.sequence]]
    /\ log_writer' = log_writer \ {t}
    /\ UNCHANGED <<hlcVars, ckptVars, matVars, sysVars, viewVars, replayVars, createVars,
                   storeVars, runVars, rateVars>>

\* a storage error: the `?` returns and the transaction is dropped uncommitted
AppendLocalFail(t) ==
    /\ log_task[t].pc = "in_txn"
    /\ log_task' = [log_task EXCEPT ![t].pc = "failed"]
    /\ log_writer' = log_writer \ {t}
    /\ UNCHANGED <<log_events, log_sequences>>
    /\ UNCHANGED <<hlcVars, ckptVars, matVars, sysVars, viewVars, replayVars, createVars,
                   storeVars, runVars, rateVars>>

\* The replicator appends an event of the other node in a write transaction
\* of its own (append, event_store.rs 44-95).
LogRemoteNode == 2
LogRemoteEvents ==
    { Event(EventId(LogRemoteNode, s), "r", HlcTimestamp(0, 0, LogRemoteNode),
            UpsertPayload(d)) : s \in 1..2, d \in {MarkerData, OtherMarkerData} }

AppendRemote(event) ==
    /\ BeginWriteAllowed(log_writer)
    /\ LET r == StoreAppend(log_events, log_sequences, event)
       IN  /\ log_events' = r.events
           /\ log_sequences' = r.sequences
    /\ UNCHANGED <<log_writer, log_task>>
    /\ UNCHANGED <<hlcVars, ckptVars, matVars, sysVars, viewVars, replayVars, createVars,
                   storeVars, runVars, rateVars>>

(***************************************************************************)
(* The entity view (entity_store.rs; storage.rs 214-241).  ENTITIES_TABLE  *)
(* is a map keyed by entity id, kept as the set of its values.             *)
(***************************************************************************)
\* EntityStore::get (entity_store.rs 38-60): the stored entity, if any.
EntityGet(table, id) == { x \in table : x.id = id }

\* An upsert that overwrites whatever is stored.
EntityUpsertAlways(table, entity) ==
    { x \in table : x.id # entity.id } \cup { entity }

\* EntityStore::upsert (entity_store.rs 86-123): no change when the stored
\* entity has an HLC at or after the new one, else the insert.
EntityUpsert(table, entity) ==
    IF \E x \in table : x.id = entity.id /\ HlcLeq(entity.hlc, x.hlc)
    THEN table
    ELSE { x \in table : x.id # entity.id } \cup { entity }

(***************************************************************************)
(* EventStore::get_events_since (event_store.rs 123-160): the range scan   *)
(* of EVENTS_TABLE from (node_id, since_seq + 1) to (node_id + 1, 0), in   *)
(* key order.  Both additions are on u64: the operator gives what the      *)
(* call returns where an overflowing addition wraps; where the build       *)
(* checks for overflow the call panics instead (OverflowPanics).           *)
(***************************************************************************)
\* The order of the keys of encode_event_key (tables.rs 24-29): big-endian
\* node id, then big-endian sequence.
KeyLess(a, b) ==
    \/ a.node_id < b.node_id
    \/ a.node_id = b.node_id /\ a.sequence < b.sequence

RECURSIVE SeqOfEvents(_)
SeqOfEvents(S) ==
    IF S = {} THEN <<>>
    ELSE LET e == CHOOSE x \in S : \A y \in S : x.id.sequence <= y.id.sequence
         IN  <<e>> \o SeqOfEvents(S \ {e})

\* A scan that returns the events after since_seq of every origin.
GetEventsSinceAnyOrigin(events, node_id, since_seq) ==
    SeqOfEvents({ e \in events : e.id.sequence > since_seq })

\* the range scan from (node_id, since_seq + 1) up to (node_id + 1, 0)
GetEventsSince(events, node_id, since_seq) ==
    LET start_key == EventId(node_id, WrappingInc(since_seq))
        end_key == EventId(WrappingInc(node_id), 0)
    IN  SeqOfEvents({ e \in events : /\ ~KeyLess(e.id, start_key)
                                     /\ KeyLess(e.id, end_key)
                                     /\ e.id.node_id = node_id })

\* InMemoryEventStore::get_events_since (storage.rs 157-168): the filter
\* over the Vec, in the order of the Vec.
MemoryGetEventsSince(events, node_id, since_seq) ==
    SelectSeq(events, LAMBDA e : e.id.node_id = node_id /\ e.id.sequence > since_seq)

\* get_events (routes/replication.rs 31-44): the events of the serving node
\* after `since`, cut at `limit`, has_more telling whether any were cut.
Take(q, n) == IF Len(q) <= n THEN q ELSE SubSeq(q, 1, n)

\* lines 35-43 for the result of get_events_since, None standing for an
\* error: unwrap_or_default, has_more, take.
PullResponseOf(result, limit) ==
    LET all == IF result = {} THEN <<>> ELSE CHOOSE q \in result : TRUE
    IN  [events |-> Take(all, limit), has_more |-> Len(all) > limit]

GetEventsResponse(events, node_id, since, limit) ==
    PullResponseOf({ GetEventsSince(events, node_id, since) }, limit)

(***************************************************************************)
(* Spec: the nodes of NodeIds, each listing the other as its peer.         *)
(***************************************************************************)
\* the highest reading of a node's system clock
MaxClock == 2
\* events the nodes create through their command handlers, in total
MaxLocalEvents == 2
\* entity ids drawn by create_marker requests, in total
MaxEntities == 2
\* requests a node handles at a time
MaxHandlers == 2
\* default_limit() of the pull endpoint (100), scaled down
PullLimit == 2

Handlers == 1..MaxHandlers
Peer(n) == CHOOSE p \in NodeIds : p # n

ZeroCheckpoint == [n \in NodeIds |-> 0]

IdleHandler(n) ==
    [pc |-> "idle", entity_id |-> 0, hlc |-> HlcZero(n),
     payload |-> TombstonePayload, event |-> {}]
IdleReplicator ==
    [pc |-> "idle", checkpoint |-> ZeroCheckpoint, response |-> <<>>, i |-> 0]

\* AppState::new (state.rs 21-36) on empty stores; the replicator spawned
\* by main (main.rs 63-79) is between two cycles.
InitSysVars ==
    /\ clock = [n \in NodeIds |-> 1]
    /\ state_hlc = [n \in NodeIds |-> HlcZero(n)]
    /\ events_table = [n \in NodeIds |-> {}]
    /\ sequences_table = [n \in NodeIds |-> ZeroCheckpoint]
    /\ entities_table = [n \in NodeIds |-> {}]
    /\ checkpoints_table = [n \in NodeIds |-> ZeroCheckpoint]
    /\ handler = [n \in NodeIds |-> [t \in Handlers |-> IdleHandler(n)]]
    /\ replicator = [n \in NodeIds |-> IdleReplicator]
    /\ uuids = 0

\* The events node n has created and its requests on their way to creating
\* one; over all nodes they are at most MaxLocalEvents.
LocalLoad(n) ==
    sequences_table[n][n]
    + Cardinality({ t \in Handlers : handler[n][t].pc \in {"checked", "stamped"} })

RECURSIVE SumOver(_, _)
SumOver(f, S) ==
    IF S = {} THEN 0
    ELSE LET x == CHOOSE y \in S : TRUE IN f[x] + SumOver(f, S \ {x})

TotalLoad == SumOver([n \in NodeIds |-> LocalLoad(n)], NodeIds)

\* The system clock of node n advances.
Tick(n) ==
    /\ clock[n] < MaxClock
    /\ clock' = [clock EXCEPT ![n] = clock[n] + 1]
    /\ UNCHANGED <<state_hlc, events_table, sequences_table, entities_table,
                   checkpoints_table, handler, replicator, uuids>>
    /\ UNCHANGED <<hlcVars, ckptVars, matVars, logVars, viewVars, replayVars, createVars,
                   storeVars, runVars, rateVars>>

(***************************************************************************)
(* The command handlers (routes/markers.rs).  A request proceeds in the    *)
(* steps between which other tasks of the node may run: the timestamp,     *)
(* the append_local transaction, the upsert transaction.                   *)
(***************************************************************************)
\* create_marker, lines 59-72: hlc.now() and the fresh entity id of a valid
\* request; a clock error returns with nothing changed.
CreateMarkerNow(n, t) ==
    /\ handler[n][t].pc = "idle"
    /\ TotalLoad < MaxLocalEvents
    /\ uuids < MaxEntities
    /\ LET r == HlcNow(state_hlc[n], clock[n], n) IN
        /\ r.ok
        /\ state_hlc' = [state_hlc EXCEPT ![n] = r.ts]
        /\ handler' = [handler EXCEPT ![n][t] =
                         [pc |-> "stamped", entity_id |-> uuids + 1, hlc |-> r.ts,
                          payload |-> UpsertPayload(MarkerData), event |-> {}]]
    /\ uuids' = uuids + 1
    /\ UNCHANGED <<clock, events_table, sequences_table, entities_table,
                   checkpoints_table, replicator>>
    /\ UNCHANGED <<hlcVars, ckptVars, matVars, logVars, viewVars, replayVars, createVars,
                   storeVars, runVars, rateVars>>

\* delete_marker, lines 132-148: the entity must be in the view and not
\* deleted (otherwise the request returns NotFound with nothing changed).
DeleteMarkerGet(n, t, id) ==
    /\ handler[n][t].pc = "idle"
    /\ TotalLoad < MaxLocalEvents
    /\ \E x \in EntityGet(entities_table[n], id) : ~x.deleted
    /\ handler' = [handler EXCEPT ![n][t] =
                     [pc |-> "checked", entity_id |-> id, hlc |-> HlcZero(n),
                      payload |-> TombstonePayload, event |-> {}]]
    /\ UNCHANGED <<clock, state_hlc, events_table, sequences_table, entities_table,
                   checkpoints_table, replicator, uuids>>
    /\ UNCHANGED <<hlcVars, ckptVars, matVars, logVars, viewVars, replayVars, createVars,
                   storeVars, runVars, rateVars>>

\* delete_marker, lines 150-160: hlc.now()
DeleteMarkerNow(n, t) ==
    /\ handler[n][t].pc = "checked"
    /\ LET r == HlcNow(state_hlc[n], clock[n], n) IN
        /\ r.ok
        /\ state_hlc' = [state_hlc EXCEPT ![n] = r.ts]
        /\ handler' = [handler EXCEPT ![n][t].pc = "stamped", ![n][t].hlc = r.ts]
    /\ UNCHANGED <<clock, events_table, sequences_table, entities_table,
                   checkpoints_table, replicator, uuids>>
    /\ UNCHANGED <<hlcVars, ckptVars, matVars, logVars, viewVars, replayVars, createVars,
                   storeVars, runVars, rateVars>>

\* create_marker 73-85, delete_marker 162-176: append_local, one write
\* transaction that reads the high-watermark and inserts the event.
MarkerAppendLocal(n, t) ==
    /\ handler[n][t].pc = "stamped"
    /\ LET h == handler[n][t]
           event == AppendLocalEvent(sequences_table[n][n], n, h.entity_id, h.hlc, h.payload)
       IN  /\ events_table' = [events_table EXCEPT ![n] = TableInsert(@, event)]
           /\ sequences_table' = [sequences_table EXCEPT ![n][n] = event.id.sequence]
           /\ handler' = [handler EXCEPT ![n][t].pc = "appended", ![n][t].event = {event}]
    /\ UNCHANGED <<clock, state_hlc, entities_table, checkpoints_table, replicator, uuids>>
    /\ UNCHANGED <<hlcVars, ckptVars, matVars, logVars, viewVars, replayVars, createVars,
                   storeVars, runVars, rateVars>>

\* create_marker 87-97, delete_marker 178-186: the entity of the event is
\* upserted into the view and the request returns.
MarkerUpsert(n, t) ==
    /\ handler[n][t].pc = "appended"
    /\ \E event \in handler[n][t].event :
          entities_table' = [entities_table EXCEPT ![n] =
                               EntityUpsert(@, EntityFromEvent(event))]
    /\ handler' = [handler EXCEPT ![n][t] = IdleHandler(n)]
    /\ UNCHANGED <<clock, state_hlc, events_table, sequences_table,
                   checkpoints_table, replicator, uuids>>
    /\ UNCHANGED <<hlcVars, ckptVars, matVars, logVars, viewVars, replayVars, createVars,
                   storeVars, runVars, rateVars>>

\* A storage error in append_local (create_marker 76-85, delete_marker
\* 165-176) or in upsert (create_marker 90-97, delete_marker 179-186): the
\* request returns 500 and nothing is undone.
MarkerStorageError(n, t) ==
    /\ handler[n][t].pc \in {"stamped", "appended"}
    /\ handler' = [handler EXCEPT ![n][t] = IdleHandler(n)]
    /\ UNCHANGED <<clock, state_hlc, events_table, sequences_table, entities_table,
                   checkpoints_table, replicator, uuids>>
    /\ UNCHANGED <<hlcVars, ckptVars, matVars, logVars, viewVars, replayVars, createVars,
                   storeVars, runVars, rateVars>>

\* The body of the entity loop (pull.rs 122-134): the event is skipped when
\* an entity is stored that it should not replace, else its entity upserted.
ReplicatorUpsert(table, event) ==
    IF \E x \in EntityGet(table, event.entity_id) : ~ShouldReplace(x, event)
    THEN table
    ELSE EntityUpsert(table, EntityFromEvent(event))

(***************************************************************************)
(* The replicator of node n (pull.rs 99-142), pulling from Peer(n).        *)
(***************************************************************************)
\* After the i-th element of the response: the next element, or the next
\* phase when the loop is over.
NextInLoop(r, next_pc) ==
    IF r.i < Len(r.response)
    THEN [r EXCEPT !.i = r.i + 1]
    ELSE [r EXCEPT !.pc = next_pc, !.i = 1]

\* lines 103-112 with a response of the replicator's choosing
BeginCycle(n, response) ==
    /\ replicator[n].pc = "idle"
    /\ response # <<>>
    /\ replicator' = [replicator EXCEPT ![n] =
                        [pc |-> "append", checkpoint |-> checkpoints_table[n],
                         response |-> response, i |-> 1]]
    /\ UNCHANGED <<clock, state_hlc, events_table, sequences_table, entities_table,
                   checkpoints_table, handler, uuids>>

SyncStart(n, response) ==
    /\ BeginCycle(n, response)
    /\ UNCHANGED <<hlcVars, ckptVars, matVars, logVars, viewVars, replayVars, createVars,
                   storeVars, runVars, rateVars>>

\* lines 103-112: get_checkpoint, the pull request with since_seq, answered
\* by get_events of the peer (HttpPeerClient sends no limit, so the default
\* applies); an empty response ends the cycle.
SyncPull(n) ==
    /\ replicator[n].pc = "idle"
    /\ SyncStart(n, GetEventsResponse(events_table[Peer(n)], Peer(n),
                                      LastSeqFor(checkpoints_table[n], Peer(n)),
                                      PullLimit).events)

\* lines 116-119: one pass of the append loop
SyncAppend(n) ==
    /\ replicator[n].pc = "append"
    /\ LET r == replicator[n]
           a == StoreAppend(events_table[n], sequences_table[n], r.response[r.i])
       IN  /\ events_table' = [events_table EXCEPT ![n] = a.events]
           /\ sequences_table' = [sequences_table EXCEPT ![n] = a.sequences]
           /\ replicator' = [replicator EXCEPT ![n] = NextInLoop(r, "upsert")]
    /\ UNCHANGED <<clock, state_hlc, entities_table, checkpoints_table, handler, uuids>>
    /\ UNCHANGED <<hlcVars, ckptVars, matVars, logVars, viewVars, replayVars, createVars,
                   storeVars, runVars, rateVars>>

\* lines 122-134: one pass of the entity loop
SyncUpsert(n) ==
    /\ replicator[n].pc = "upsert"
    /\ LET r == replicator[n] IN
        /\ entities_table' = [entities_table EXCEPT ![n] =
                                 ReplicatorUpsert(@, r.response[r.i])]
        /\ replicator' = [replicator EXCEPT ![n] = NextInLoop(r, "save")]
    /\ UNCHANGED <<clock, state_hlc, events_table, sequences_table,
                   checkpoints_table, handler, uuids>>
    /\ UNCHANGED <<hlcVars, ckptVars, matVars, logVars, viewVars, replayVars, createVars,
                   storeVars, runVars, rateVars>>

\* lines 137-139: update_contiguous and save_checkpoint
SaveCheckpoint(n) ==
    /\ replicator[n].pc = "save"
    /\ LET r == replicator[n] IN
         checkpoints_table' = [checkpoints_table EXCEPT ![n] =
                                 UpdateContiguous(r.checkpoint, Peer(n), r.response)]
    /\ replicator' = [replicator EXCEPT ![n] = IdleReplicator]
    /\ UNCHANGED <<clock, state_hlc, events_table, sequences_table, entities_table,
                   handler, uuids>>

SyncSave(n) ==
    /\ SaveCheckpoint(n)
    /\ UNCHANGED <<hlcVars, ckptVars, matVars, logVars, viewVars, replayVars, createVars,
                   storeVars, runVars, rateVars>>

\* A failing cycle that saves the checkpoint of its response on the way out.
SyncFailSavingCheckpoint(n) ==
    /\ replicator[n].pc \in {"append", "upsert", "save"}
    /\ LET r == replicator[n] IN
         checkpoints_table' = [checkpoints_table EXCEPT ![n] =
                                 UpdateContiguous(r.checkpoint, Peer(n), r.response)]
    /\ replicator' = [replicator EXCEPT ![n] = IdleReplicator]
    /\ UNCHANGED <<clock, state_hlc, events_table, sequences_table, entities_table,
                   handler, uuids>>
    /\ UNCHANGED <<hlcVars, ckptVars, matVars, logVars, viewVars, replayVars, createVars,
                   storeVars, runVars, rateVars>>

\* A storage error at any `?` of lines 116-139: sync_from_peer returns the
\* error, sync_once logs it, and the next cycle starts over.
SyncFail(n) ==
    /\ replicator[n].pc \in {"append", "upsert", "save"}
    /\ replicator' = [replicator EXCEPT ![n] = IdleReplicator]
    /\ UNCHANGED <<clock, state_hlc, events_table, sequences_table, entities_table,
                   checkpoints_table, handler, uuids>>
    /\ UNCHANGED <<hlcVars, ckptVars, matVars, logVars, viewVars, replayVars, createVars,
                   storeVars, runVars, rateVars>>

(***************************************************************************)
(* SpecView: one entity view, empty at first, to which at most             *)
(* MaxViewCalls events are applied in any order, each either by a handler  *)
(* (upsert of the event's entity) or by the replicator (the body of its    *)
(* entity loop).  The events are of the entities 1..MaxViewEntities with   *)
(* wall times 1..MaxViewWall, upserts and tombstones of either node.       *)
(***************************************************************************)
MaxViewCalls == 3
MaxViewEntities == 2
MaxViewWall == 2

ViewEvents ==
    { Event(EventId(n, w), e, HlcTimestamp(w, 0, n), p) :
        n \in NodeIds, w \in 1..MaxViewWall, e \in 1..MaxViewEntities,
        p \in { UpsertPayload(MarkerData), TombstonePayload } }

NoViewCall == [kind |-> "none", before |-> {}, event |-> {}, read |-> {}]

InitViewVars ==
    /\ view_table = {}
    /\ view_applied = {}
    /\ view_call = NoViewCall
    /\ view_pending = {}
    /\ view_unconditional = {}

IdleViewVars == InitViewVars

\* entity_store.upsert(Entity::from_event(&event)), as the handlers call it
ViewUpsert(event) ==
    /\ Cardinality(view_applied) + Cardinality(view_pending) < MaxViewCalls
    /\ view_table' = EntityUpsert(view_table, EntityFromEvent(event))
    /\ view_unconditional' = EntityUpsert(view_unconditional, EntityFromEvent(event))
    /\ view_applied' = view_applied \cup {event}
    /\ view_call' = [kind |-> "upsert", before |-> view_table, event |-> {event},
                     read |-> {}]
    /\ UNCHANGED view_pending
    /\ UNCHANGED <<hlcVars, ckptVars, matVars, logVars, sysVars, replayVars, createVars,
                   storeVars, runVars, rateVars>>

\* one pass of the replicator's entity loop
ViewReplicate(event) ==
    /\ view_pending = {}
    /\ Cardinality(view_applied) < MaxViewCalls
    /\ view_table' = ReplicatorUpsert(view_table, event)
    /\ view_unconditional' = EntityUpsert(view_unconditional, EntityFromEvent(event))
    /\ view_applied' = view_applied \cup {event}
    /\ view_call' = [kind |-> "replicate", before |-> view_table, event |-> {event},
                     read |-> EntityGet(view_table, event.entity_id)]
    /\ UNCHANGED view_pending
    /\ UNCHANGED <<hlcVars, ckptVars, matVars, logVars, sysVars, replayVars, createVars,
                   storeVars, runVars, rateVars>>

(***************************************************************************)
(* SpecViewTasks: the view of SpecView shared by the Command API tasks,    *)
(* whose upsert is one write transaction, and the replicator, whose entity *)
(* loop reads the entity (pull.rs 126) and upserts it (pull.rs 132) in two *)
(* transactions, so that upserts of the tasks fall between the two.  The   *)
(* tasks upsert the events of the node itself, the replicator those of the *)
(* other nodes.                                                            *)
(***************************************************************************)
\* entity_store.get(event.entity_id) and should_replace, lines 126-130: the
\* event is skipped, or the replicator goes on to upsert it.
ViewReplicateGet(event) ==
    /\ view_pending = {}
    /\ Cardinality(view_applied) < MaxViewCalls
    /\ \E read \in { EntityGet(view_table, event.entity_id) } :
          IF \E x \in read : ~ShouldReplace(x, event)
          THEN /\ view_applied' = view_applied \cup {event}
               /\ view_unconditional' =
                     EntityUpsert(view_unconditional, EntityFromEvent(event))
               /\ view_call' = [kind |-> "replicate", before |-> view_table,
                                event |-> {event}, read |-> read]
               /\ UNCHANGED <<view_table, view_pending>>
          ELSE /\ view_pending' = { [event |-> event, read |-> read] }
               /\ UNCHANGED <<view_table, view_applied, view_call, view_unconditional>>
    /\ UNCHANGED <<hlcVars, ckptVars, matVars, logVars, sysVars, replayVars, createVars,
                   storeVars, runVars, rateVars>>

\* entity_store.upsert(entity) of the event read before, line 132
ViewReplicateUpsert ==
    /\ \E p \in view_pending :
          /\ view_table' = EntityUpsert(view_table, EntityFromEvent(p.event))
          /\ view_unconditional' =
                EntityUpsert(view_unconditional, EntityFromEvent(p.event))
          /\ view_applied' = view_applied \cup {p.event}
          /\ view_call' = [kind |-> "replicate", before |-> view_table,
                           event |-> {p.event}, read |-> p.read]
    /\ view_pending' = {}
    /\ UNCHANGED <<hlcVars, ckptVars, matVars, logVars, sysVars, replayVars, createVars,
                   storeVars, runVars, rateVars>>

(***************************************************************************)
(* Claims about the clock (SpecHlc).                                       *)
(***************************************************************************)
\* C2: on one Hlc instance every timestamp returned by a successful now()
\* or receive(remote) is strictly greater, in the (wall_time, counter,
\* node_id) order, than every timestamp the instance returned before.
C2_ReturnedStrictlyIncreasing ==
    \A i, j \in DOMAIN hlc_returned :
        i < j => HlcLess(hlc_returned[i], hlc_returned[j])

\* C3: a successful receive(remote) returns a timestamp strictly greater than
\* both the previous `last` and `remote`, and that value is the new `last`.
C3_ReceiveAfterLastAndRemote ==
    (hlc_call.kind = "receive" /\ hlc_call.ok) =>
        /\ HlcLess(hlc_call.prev, hlc_call.ts)
        /\ HlcLess(hlc_call.remote, hlc_call.ts)
        /\ last_timestamp = hlc_call.ts

(***************************************************************************)
(* Claims about update_contiguous (SpecCkpt).                              *)
(***************************************************************************)
\* C6: update_contiguous sets last_seq_for(peer) to the largest n >= cur
\* such that every sequence in cur+1..n occurs among the batch's events of
\* the peer, whatever the order of the batch; it never passes a missing
\* sequence, and events with sequence <= cur are ignored.
C6_AdvancesToEndOfContiguousRun ==
    ck_applied >= 1 =>
        LET cur == LastSeqFor(ck_before, ck_peer)
            n == LastSeqFor(ck_first, ck_peer)
            present == SeqsOfPeer(ck_batch, ck_peer)
        IN  /\ n >= cur
            /\ \A q \in (cur + 1)..n : q \in present
            /\ (n + 1) \notin present

\* C6 witness: from 1, the unsorted batch [5,2,1,3] (an old event, a gap at 4)
\* has moved the checkpoint of the peer to 3.
C6_Witness ==
    /\ ck_applied = 1
    /\ LastSeqFor(ck_before, ck_peer) = 1
    /\ ck_batch = << CkEvent(ck_peer, 5), CkEvent(ck_peer, 2),
                     CkEvent(ck_peer, 1), CkEvent(ck_peer, 3) >>
    /\ LastSeqFor(ck_checkpoint, ck_peer) = 3

\* C7: applying update_contiguous a second time with the same batch leaves
\* the checkpoint exactly as the first application left it.
C7_SecondApplicationIsNoOp ==
    ck_applied = 2 => ck_checkpoint = ck_first

\* C7 witness: the batch was applied twice, the first application advanced
\* the checkpoint, and the batch still holds a sequence beyond it.
C7_Witness ==
    /\ ck_applied = 2
    /\ ck_first # ck_before
    /\ \E q \in SeqsOfPeer(ck_batch, ck_peer) : q > LastSeqFor(ck_first, ck_peer)

C38_OtherEntriesUntouched ==
    ck_applied >= 1 =>
        /\ \A q \in CkNodes \ {ck_peer} :
               LastSeqFor(ck_checkpoint, q) = LastSeqFor(ck_before, q)
        /\ \/ LastSeqFor(ck_checkpoint, ck_peer) = LastSeqFor(ck_before, ck_peer)
           \/ LastSeqFor(ck_checkpoint, ck_peer) \in SeqsOfPeer(ck_batch, ck_peer)

\* C38 witness: a batch with an event of another origin, whose sequence is
\* the one that node's entry and the peer's entry both wait for, and with
\* no event of the peer at that sequence, has been applied.
C38_Witness ==
    /\ ck_applied >= 1
    /\ \E q \in CkNodes \ {ck_peer} :
           /\ (LastSeqFor(ck_before, q) + 1) \in SeqsOfPeer(ck_batch, q)
           /\ (LastSeqFor(ck_before, ck_peer) + 1) \in SeqsOfPeer(ck_batch, q)
    /\ (LastSeqFor(ck_before, ck_peer) + 1) \notin SeqsOfPeer(ck_batch, ck_peer)
    /\ SeqsOfPeer(ck_batch, ck_peer) # {}

(***************************************************************************)
(* Claims about materialize (SpecMat).                                     *)
(***************************************************************************)
\* C10: for a non-empty collection of events of one entity materialize
\* returns Entity::from_event of the event with the maximum HLC, the same
\* for every ordering of the collection; for the empty one it returns None.
C10_MaterializeMaxAnyOrder ==
    mat_done =>
        IF mat_events = <<>> THEN mat_result = {}
        ELSE /\ \E i \in DOMAIN mat_events :
                  /\ \A j \in DOMAIN mat_events : HlcLeq(mat_events[j].hlc, mat_events[i].hlc)
                  /\ mat_result = { EntityFromEvent(mat_events[i]) }
             /\ \A q \in Orderings(mat_events) : Materialize(q) = mat_result

(***************************************************************************)
(* Claims about append_local (SpecLog).                                    *)
(***************************************************************************)
LogDone == { t \in AppendTasks : log_task[t].pc = "done" }
LogSeqsOf(node_id) == { e.id.sequence : e \in { x \in log_events : x.id.node_id = node_id } }

\* C4: for any interleaving of concurrent append_local calls of one node on
\* an empty log no two calls get the same sequence, after k completed calls
\* the assigned sequences are exactly 1..k, and the log of the node holds
\* exactly the sequences 1..max_seq.
C4_SequencesDenseAndUnique ==
    /\ \A t1, t2 \in LogDone : t1 # t2 => log_task[t1].sequence # log_task[t2].sequence
    /\ { log_task[t].sequence : t \in LogDone } = 1..Cardinality(LogDone)
    /\ LogSeqsOf(LogNode) = 1..log_sequences[LogNode]
    /\ log_sequences[LogNode] = Cardinality(LogDone)

\* C4 witness: every task has completed its call while remote events were
\* appended in between.
C4_Witness ==
    /\ LogDone = AppendTasks
    /\ \E e \in log_events : e.id.node_id = LogRemoteNode

(***************************************************************************)
(* SpecSync: the replicator of node SyncNode fed responses of any shape:   *)
(* at most MaxResponse events of the peer with sequences up to MaxSyncSeq, *)
(* in any order, with gaps and with duplicates.                            *)
(***************************************************************************)
MaxResponse == 2
MaxSyncSeq == 3
SyncNode == 1

SyncEvent(s) ==
    Event(EventId(Peer(SyncNode), s), s, HlcTimestamp(s, 0, Peer(SyncNode)),
          UpsertPayload(MarkerData))
SyncResponses ==
    UNION { [1..k -> { SyncEvent(s) : s \in 1..MaxSyncSeq }] : k \in 1..MaxResponse }

\* What sync_replay remembers of the stores of node n.
StoresOf(n) ==
    [events |-> events_table[n], sequences |-> sequences_table[n],
     entities |-> entities_table[n], checkpoint |-> checkpoints_table[n]]

\* stage 0: nothing delivered; 1: a response is being delivered for the
\* first time; 2: its cycle has completed; 3: the same response is being
\* delivered again right after; 4: that cycle has completed too.
NoReplay == [stage |-> 0, response |-> <<>>, first |-> {}]

IdleReplayVars == sync_replay = NoReplay

\* The peer client hands `response` to the replicator of SyncNode.
SyncDeliver(response) ==
    /\ BeginCycle(SyncNode, response)
    /\ sync_replay' =
          IF sync_replay.stage \in {2, 4} /\ response = sync_replay.response
          THEN [sync_replay EXCEPT !.stage = 3]
          ELSE [stage |-> 1, response |-> response, first |-> {}]
    /\ UNCHANGED <<hlcVars, ckptVars, matVars, logVars, viewVars, createVars, storeVars,
                   runVars, rateVars>>

\* The cycle of SyncNode ends with its checkpoint saved.
SyncComplete ==
    /\ SaveCheckpoint(SyncNode)
    /\ sync_replay' =
          IF sync_replay.stage = 1
          THEN [sync_replay EXCEPT !.stage = 2,
                                   !.first = { [StoresOf(SyncNode) EXCEPT
                                                  !.checkpoint = checkpoints_table'[SyncNode]] }]
          ELSE [sync_replay EXCEPT !.stage = 4]
    /\ UNCHANGED <<hlcVars, ckptVars, matVars, logVars, viewVars, createVars, storeVars,
                   runVars, rateVars>>

(***************************************************************************)
(* Claims about the nodes (Spec, SpecSync).                                *)
(***************************************************************************)
\* No request is in flight, no sync cycle is under way, and a pull by
\* either node would return no event.
Quiescent ==
    /\ \A n \in NodeIds, t \in Handlers : handler[n][t].pc = "idle"
    /\ \A n \in NodeIds :
          /\ replicator[n].pc = "idle"
          /\ GetEventsSince(events_table[Peer(n)], Peer(n),
                            LastSeqFor(checkpoints_table[n], Peer(n))) = <<>>

\* C1: replication convergence.  Once the requests have returned and the
\* sync cycles have run until no pull returns an event, the two nodes hold
\* the same entities (id, hlc, source_event, deleted flag and fields).
C1_ViewsEqualWhenQuiescent ==
    Quiescent => entities_table[1] = entities_table[2]

\* C5: when the saved checkpoint of a node for its peer P reads S, every
\* event (P, s) with 1 <= s <= S is in the node's log, whatever the
\* responses held (gaps, duplicates, any order) and wherever a cycle failed.
C5_CheckpointCoveredByLog ==
    \A n \in NodeIds :
        \A s \in 1..LastSeqFor(checkpoints_table[n], Peer(n)) :
            HasKey(events_table[n], EventId(Peer(n), s))

\* A cycle failed after its appends, a response with a gap was handled to
\* its end, and the checkpoint stands at the event before the gap.
C5_Witness ==
    /\ replicator[SyncNode].pc = "idle"
    /\ LastSeqFor(checkpoints_table[SyncNode], Peer(SyncNode)) = 1
    /\ HasKey(events_table[SyncNode], EventId(Peer(SyncNode), 3))
    /\ ~HasKey(events_table[SyncNode], EventId(Peer(SyncNode), 2))
    /\ Cardinality(entities_table[SyncNode]) = 1

\* The remote events node n has applied: logged, and covered by the
\* checkpoint a completed sync cycle saved.
AppliedRemote(n) ==
    { a \in events_table[n] :
        /\ a.id.node_id # n
        /\ a.id.sequence <= LastSeqFor(checkpoints_table[n], a.id.node_id) }

\* C9: when a request of node n draws the timestamp of the local event it
\* creates, that timestamp is after the HLC of every remote event n has
\* applied before, for clocks that differ by no more than the drift bound.
C9_LocalStampAfterApplied ==
    [][\A n \in NodeIds, t \in Handlers :
          (handler[n][t].pc # "stamped" /\ handler'[n][t].pc = "stamped")
          => \A a \in AppliedRemote(n) :
                a.hlc.wall_time <= clock[n] + MaxDriftMs
                => HlcLess(a.hlc, handler'[n][t].hlc)]_vars

\* C11: in every state of a node every entity of the view carries the HLC
\* of the logged event its source_event names, and that HLC is the maximum
\* among the logged events of the entity.
C11_ViewIsLatestOfLog ==
    \A n \in NodeIds : \A x \in entities_table[n] :
        /\ \E e \in events_table[n] : e.id = x.source_event /\ e.hlc = x.hlc
        /\ \A e \in events_table[n] : e.entity_id = x.id => HlcLeq(e.hlc, x.hlc)

\* C32: of any two events in the log of a node that the node produced
\* itself through createMarker or deleteMarker, requests handled
\* concurrently included, the one with the smaller sequence has the smaller
\* HLC.
C32_LocalSequenceOrderIsHlcOrder ==
    \A n \in NodeIds : \A a, b \in events_table[n] :
        (a.id.node_id = n /\ b.id.node_id = n /\ a.id.sequence < b.id.sequence)
        => HlcLess(a.hlc, b.hlc)

(***************************************************************************)
(* Claims about the view (SpecView).                                       *)
(***************************************************************************)
\* C12: upsert(entity) changes nothing when the view holds an entity of the
\* same id with hlc >= entity.hlc; otherwise the stored entity of that id
\* becomes exactly the given one; entities of other ids are never changed.
C12_UpsertFrame ==
    \A event \in view_call.event :
        view_call.kind = "upsert" =>
            LET entity == EntityFromEvent(event)
                before == view_call.before
            IN  /\ (\E x \in before : x.id = entity.id /\ HlcLeq(entity.hlc, x.hlc))
                      => view_table = before
                /\ ~(\E x \in before : x.id = entity.id /\ HlcLeq(entity.hlc, x.hlc))
                      => EntityGet(view_table, entity.id) = {entity}
                /\ \A x \in before : x.id # entity.id => x \in view_table
                /\ \A x \in view_table : x.id # entity.id => x \in before

\* An upsert replaced a stored entity of smaller HLC while the view held an
\* entity of another id.
C12_Witness ==
    /\ view_call.kind = "upsert"
    /\ \E event \in view_call.event :
          /\ \E x \in view_call.before : x.id # event.entity_id
          /\ \E x \in view_call.before :
                x.id = event.entity_id /\ HlcLess(x.hlc, event.hlc)
          /\ EntityGet(view_table, event.entity_id) = {EntityFromEvent(event)}

\* C13: tombstone dominance.  When the view holds a deleted entity with HLC
\* T, applying an upsert event of the entity with HLC < T leaves it as it
\* is, and applying one with HLC > T stores the non-deleted entity of that
\* event; a tombstone replaces any stored state of smaller HLC.
C13_TombstoneDominance ==
    \A event \in view_call.event : \A x \in EntityGet(view_call.before, event.entity_id) :
        LET stored == EntityGet(view_table, event.entity_id) IN
        /\ (x.deleted /\ event.payload.type = "Upsert" /\ HlcLess(event.hlc, x.hlc))
              => stored = {x}
        /\ (x.deleted /\ event.payload.type = "Upsert" /\ HlcLess(x.hlc, event.hlc))
              => \A y \in stored :
                    /\ Cardinality(stored) = 1
                    /\ ~y.deleted
                    /\ y.data = event.payload.data
                    /\ y.hlc = event.hlc
        /\ (event.payload.type = "Tombstone" /\ HlcLess(x.hlc, event.hlc))
              => \A y \in stored :
                    /\ Cardinality(stored) = 1
                    /\ y.deleted
                    /\ y.hlc = event.hlc

\* The replicator applied a tombstone over a live entity, then an older
\* upsert of the entity, and the entity is still deleted.
C13_Witness ==
    /\ view_call.kind = "replicate"
    /\ \E event \in view_call.event :
          /\ event.payload.type = "Upsert"
          /\ \E x \in EntityGet(view_call.before, event.entity_id) :
                x.deleted /\ HlcLess(event.hlc, x.hlc)
          /\ \E y \in view_table : y.id = event.entity_id /\ y.deleted
    /\ Cardinality(view_applied) = 3

\* C14: LWW with the node id breaking ties.  When two events of one entity
\* with equal wall_time and counter, of nodes n1 < n2, have both been
\* applied, in either order, the view holds the entity of n2's event.
C14_NodeIdBreaksTies ==
    \A a, b \in view_applied :
        (/\ a.entity_id = b.entity_id
         /\ a.hlc.wall_time = b.hlc.wall_time
         /\ a.hlc.counter = b.hlc.counter
         /\ a.hlc.node_id < b.hlc.node_id
         /\ { x \in view_applied : x.entity_id = a.entity_id } = {a, b})
        => EntityGet(view_table, a.entity_id) = {EntityFromEvent(b)}

\* The event of the higher node was applied first and the event of the
\* lower node, with the same wall_time and counter, after it.
C14_Witness ==
    \E a \in view_call.event : \E b \in view_applied :
        /\ a.entity_id = b.entity_id
        /\ a.hlc.wall_time = b.hlc.wall_time
        /\ a.hlc.counter = b.hlc.counter
        /\ a.hlc.node_id < b.hlc.node_id
        /\ { x \in view_applied : x.entity_id = a.entity_id } = {a, b}
        /\ \E x \in view_call.before : x.id = a.entity_id

\* C34: the replicator's caller-side HLC check is only an optimization.
\* After every sequence of events delivered to the view, the view of the
\* replicator that skips the events should_replace rejects is exactly the
\* view of a replicator that calls upsert for every event.
C34_CallerCheckIsOptimization ==
    view_table = view_unconditional

\* C34 witness: the replicator has skipped an event because the stored
\* entity had an HLC at or after the event's, after an earlier event of
\* the entity was stored.
C34_Witness ==
    /\ view_call.kind = "replicate"
    /\ view_table = view_call.before
    /\ \E event \in view_call.event :
          /\ \E x \in view_call.read : HlcLeq(event.hlc, x.hlc)
          /\ \E x \in view_call.read : x.source_event # event.id
    /\ Cardinality(view_applied) >= 2

\* The events of view_applied of the entity id.
AppliedTo(id) == { e \in view_applied : e.entity_id = id }

\* C31: per-entity LWW under concurrency.  For every interleaving of the
\* upserts of the Command API tasks with the two steps of the replicator
\* (read, then upsert), the entity stored under an id is that of an
\* upserted event whose HLC is the maximum among the upserted events of the
\* id; and no step lowers the stored HLC of an id or removes its entity.
C31_LwwUnderConcurrency ==
    /\ [](\A e \in view_applied :
             \E x \in view_table :
                /\ x.id = e.entity_id
                /\ HlcLeq(e.hlc, x.hlc)
                /\ \E f \in AppliedTo(x.id) : x = EntityFromEvent(f)
                /\ EntityGet(view_table, x.id) = {x})
    /\ [][\A x \in view_table :
             \E y \in view_table' : y.id = x.id /\ HlcLeq(x.hlc, y.hlc)]_vars

\* C31 witness: between the replicator's read of an entity and its upsert
\* a task stored an entity of the same id with a later HLC than the
\* replicator's event, and after the replicator's upsert it is still stored.
C31_Witness ==
    /\ view_call.kind = "replicate"
    /\ \E event \in view_call.event :
          /\ \A x \in view_call.read : HlcLess(x.hlc, event.hlc)
          /\ \E x \in view_call.before :
                x.id = event.entity_id /\ HlcLess(event.hlc, x.hlc) /\ x \in view_table

(***************************************************************************)
(* Claims about the sync cycle (SpecSync).                                 *)
(***************************************************************************)
\* C15: idempotent replay.  While and after the replicator is delivered the
\* same response a second time, append returns false for each of its
\* events, the log and the view are what they were after the first
\* delivery, and so is the checkpoint of the peer.
C15_ReplayChangesNothing ==
    sync_replay.stage \in {3, 4} =>
        \A f \in sync_replay.first :
            /\ StoresOf(SyncNode) = f
            /\ \A i \in DOMAIN sync_replay.response :
                  ~StoreAppend(events_table[SyncNode], sequences_table[SyncNode],
                               sync_replay.response[i]).inserted

\* A response of MaxResponse events with a gap has been delivered twice, each
\* cycle running to its end.
C15_Witness ==
    /\ sync_replay.stage = 4
    /\ Len(sync_replay.response) = MaxResponse
    /\ LastSeqFor(checkpoints_table[SyncNode], Peer(SyncNode)) = 1
    /\ HasKey(events_table[SyncNode], EventId(Peer(SyncNode), 3))

\* C17: the saved checkpoint value for the peer never decreases, whether
\* the sync cycles succeed or fail.
C17_CheckpointNeverDecreases ==
    [][\A n \in NodeIds :
          LastSeqFor(checkpoints_table'[n], Peer(n))
              >= LastSeqFor(checkpoints_table[n], Peer(n))]_vars

\* The checkpoint stands at 2 after a later cycle appended event 3 and
\* failed before the event reached the view.
C17_Witness ==
    /\ replicator[SyncNode].pc = "idle"
    /\ LastSeqFor(checkpoints_table[SyncNode], Peer(SyncNode)) = 2
    /\ HasKey(events_table[SyncNode], EventId(Peer(SyncNode), 3))
    /\ EntityGet(entities_table[SyncNode], 3) = {}

\* C27: every persisted event carries the same node in its timestamp as in
\* its id: event.hlc.node_id = event.id.node_id, for the events a node
\* created and for those it replicated.
C27_HlcNodeIsEventNode ==
    \A n \in NodeIds : \A e \in events_table[n] : e.hlc.node_id = e.id.node_id

\* The log of a node holds an event of its own and one replicated from
\* its peer.
C27_Witness ==
    \E n \in NodeIds : \E e, f \in events_table[n] :
        /\ e.id.node_id = n
        /\ f.id.node_id = Peer(n)
        /\ replicator[n].pc = "idle"

\* C24: when a storage call of the append loop or of the entity loop fails
\* inside sync_from_peer, the cycle ends with the stored checkpoint for the
\* peer exactly as it was read at the start of the call, so the next pull
\* requests the same since_seq.
C24_FailedCycleKeepsCheckpoint ==
    [][\A n \in NodeIds :
          (replicator[n].pc \in {"append", "upsert"} /\ replicator'[n].pc = "idle")
              => /\ checkpoints_table'[n] = checkpoints_table[n]
                 /\ checkpoints_table'[n] = replicator[n].checkpoint
                 /\ LastSeqFor(checkpoints_table'[n], Peer(n))
                        = LastSeqFor(replicator[n].checkpoint, Peer(n))]_vars

\* A cycle answered with the events 1 and 2 has failed in its entity loop:
\* both are logged, only the first is in the view, and the checkpoint still
\* stands at 0.
C24_Witness ==
    /\ replicator[SyncNode].pc = "idle"
    /\ LastSeqFor(checkpoints_table[SyncNode], Peer(SyncNode)) = 0
    /\ HasKey(events_table[SyncNode], EventId(Peer(SyncNode), 1))
    /\ HasKey(events_table[SyncNode], EventId(Peer(SyncNode), 2))
    /\ EntityGet(entities_table[SyncNode], 1) # {}
    /\ EntityGet(entities_table[SyncNode], 2) = {}

\* C19: the replicator rejects a delivered event whose hlc.wall_time is
\* more than max_drift_ms ahead of the local physical time: no such event
\* is appended to the log (or, then, applied or counted in the checkpoint).
C19_EventsAheadRejected ==
    [][\A n \in NodeIds : \A e \in events_table'[n] \ events_table[n] :
          e.id.node_id # n => e.hlc.wall_time <= clock[n] + MaxDriftMs]_vars

\* C18: clock errors leave the clock unchanged.  receive fails, with
\* RemoteClockAhead, exactly when remote.wall_time > physical + max_drift;
\* now fails, with ExcessiveDrift, exactly when last.wall_time >
\* physical + max_drift; after a failed call `last` is what it was before.
C18_ClockErrorsKeepLast ==
    /\ hlc_call.kind = "receive" =>
          /\ ~hlc_call.ok <=> hlc_call.remote.wall_time > hlc_call.physical + MaxDriftMs
          /\ ~hlc_call.ok => /\ hlc_call.err = "RemoteClockAhead"
                             /\ last_timestamp = hlc_call.prev
    /\ hlc_call.kind = "now" =>
          /\ ~hlc_call.ok <=> hlc_call.prev.wall_time > hlc_call.physical + MaxDriftMs
          /\ ~hlc_call.ok => /\ hlc_call.err = "ExcessiveDrift"
                             /\ last_timestamp = hlc_call.prev

\* now() has failed on a clock that earlier calls had advanced.
C18_Witness ==
    /\ hlc_call.kind = "now"
    /\ ~hlc_call.ok
    /\ hlc_call.err = "ExcessiveDrift"
    /\ hlc_returned # <<>>
    /\ last_timestamp = hlc_returned[Len(hlc_returned)]

MaxLatitude == 90
MaxLongitude == 180
MaxIconIdLen == 64
\* The label limit (256 in validation.rs 60), scaled down.
MaxLabelLen == 4

\* RangeInclusive<f64>::contains: every comparison with NaN is false.
RangeContains(lo, hi, x) == ~x.nan /\ lo <= x.v /\ x.v <= hi

\* char::is_ascii_alphanumeric
AsciiAlphanumeric ==
    {
      "a", "b", "c", "d", "e", "f", "g", "h", "i", "j", "k", "l", "m",
      "n", "o", "p", "q", "r", "s", "t", "u", "v", "w", "x", "y", "z",
      "A", "B", "C", "D", "E", "F", "G", "H", "I", "J", "K", "L", "M",
      "N", "O", "P", "Q", "R", "S", "T", "U", "V", "W", "X", "Y", "Z",
      "0", "1", "2", "3", "4", "5", "6", "7", "8", "9"
    }

AsciiOther == {"_", "-", ".", " "}

Ascii == AsciiAlphanumeric \cup AsciiOther

\* String::len(): one byte for each ASCII character and two for each of
\* the others used here.
StrLen(str) ==
    LET ascii == Ascii
    IN  Len(str) + Cardinality({ i \in 1..Len(str) : str[i] \notin ascii })

Repeat(c, n) == [i \in 1..n |-> c]

Ok == "Ok"

\* Validator::validate_latitude (validation.rs 9-17)
ValidateLatitude(lat) ==
    IF ~RangeContains(-MaxLatitude, MaxLatitude, lat) THEN "InvalidLatitude"
    ELSE IF lat.nan THEN "InvalidLatitude"
    ELSE Ok

\* Validator::validate_longitude (validation.rs 20-28)
ValidateLongitude(lon) ==
    IF ~RangeContains(-MaxLongitude, MaxLongitude, lon) THEN "InvalidLongitude"
    ELSE IF lon.nan THEN "InvalidLongitude"
    ELSE Ok

\* Validator::validate_icon_id (validation.rs 32-54)
ValidateIconId(icon_id) ==
    IF icon_id = <<>> THEN "InvalidIconId"
    ELSE IF StrLen(icon_id) > MaxIconIdLen THEN "InvalidIconId"
    ELSE IF ~(LET alphanumeric == AsciiAlphanumeric
              IN  \A i \in 1..Len(icon_id) :
                     icon_id[i] \in alphanumeric \/ icon_id[i] = "_" \/ icon_id[i] = "-")
    THEN "InvalidIconId"
    ELSE Ok

\* A label check whose limit is one too high.
ValidateLabelOffByOne(label) ==
    IF \E l \in label : StrLen(l) > MaxLabelLen + 1 THEN "LabelTooLong" ELSE Ok

\* Validator::validate_label (validation.rs 58-65); label is an Option.
ValidateLabel(label) ==
    IF \E l \in label : StrLen(l) > MaxLabelLen THEN "LabelTooLong" ELSE Ok

\* Validator::validate_marker_data (validation.rs 68-74): the first error.
ValidateMarkerData(data) ==
    IF ValidateLatitude(data.lat) # Ok THEN ValidateLatitude(data.lat)
    ELSE IF ValidateLongitude(data.lon) # Ok THEN ValidateLongitude(data.lon)
    ELSE IF ValidateIconId(data.icon_id) # Ok THEN ValidateIconId(data.icon_id)
    ELSE ValidateLabel(data.label)

\* Validator::validate_payload (validation.rs 77-82)
ValidatePayload(payload) ==
    IF payload.type = "Upsert" THEN ValidateMarkerData(payload.data) ELSE Ok

\* The icon set of the server (main.rs 49-53): marker, ship, plane.
Icons ==
    { <<"m", "a", "r", "k", "e", "r">>, <<"s", "h", "i", "p">>,
      <<"p", "l", "a", "n", "e">> }

(***************************************************************************)
(* SpecCreate: node CreateNode serves create_marker and delete_marker      *)
(* requests one after the other, and between them its replicator may run a *)
(* sync cycle that brings a marker of the peer.  A create request carries  *)
(* any form of CreateForms and a delete request any id; system_time_millis *)
(* returns any value after the epoch when Hlc::now reads it, and a storage *)
(* call may fail with a storage error.                                     *)
(***************************************************************************)
CreateNode == 1

\* The readings of system_time_millis: an early and a late one.
CreatePhysicalTimes == {1, MaxClock + 1}

\* The number of requests and sync cycles a behaviour of the node holds.
MaxCreateCalls == 4

CreateLatitudes ==
    { F64(-(MaxLatitude + 1)), F64(MaxLatitude), F64(MaxLatitude + 1), NaN }
CreateLongitudes ==
    { F64(-(MaxLongitude + 1)), F64(-MaxLongitude), F64(MaxLongitude + 1), NaN }
CreateIconIds ==
    { <<>>, <<"s", "h", "i", "p">>, <<"b", "o", "a", "t">>,
      <<"a", ".", "b">>, Repeat("a", MaxIconIdLen + 1) }
CreateLabels ==
    { { Repeat("A", MaxLabelLen) }, { Repeat("A", MaxLabelLen + 1) } }

\* CreateMarkerForm (routes/markers.rs 22-27): a form with every field valid
\* and on the edge of what is valid, and the forms that differ from it in
\* one field.
BaseForm ==
    [lat |-> F64(MaxLatitude), lon |-> F64(-MaxLongitude),
     icon_id |-> <<"s", "h", "i", "p">>, label |-> { Repeat("A", MaxLabelLen) }]

CreateForms ==
    { [BaseForm EXCEPT !.lat = x] : x \in CreateLatitudes }
        \cup { [BaseForm EXCEPT !.lon = x] : x \in CreateLongitudes }
        \cup { [BaseForm EXCEPT !.icon_id = x] : x \in CreateIconIds }
        \cup { [BaseForm EXCEPT !.label = x] : x \in CreateLabels }

StorageFaults == {"none", "get", "append_local", "upsert"}

\* The clock's last timestamp, the log, the high-watermark and the view.
CreateStores ==
    [hlc |-> state_hlc[CreateNode], events |-> events_table[CreateNode],
     sequences |-> sequences_table[CreateNode],
     entities |-> entities_table[CreateNode]]

NoCreate == [kind |-> "none", calls |-> 0, form |-> {}, entity_id |-> {}, physical |-> {},
             status |-> "none", message |-> "none", before |-> {}]

IdleCreateVars == create_call = NoCreate

\* The response and the stores after create_marker has run on `stores`.
CreateMarkerOutcome(stores, form, physical, fault, entity_id) ==
    LET payload == UpsertPayload(form)
        rejected(status, message) ==
            [status |-> status, message |-> message, stores |-> stores]
    IN  IF ValidatePayload(payload) # Ok
        THEN rejected("BAD_REQUEST", "Validation error")
        ELSE IF form.icon_id \notin Icons
        THEN rejected("BAD_REQUEST", "Icon not found")
        ELSE LET r == HlcNow(stores.hlc, physical, CreateNode) IN
        IF ~r.ok
        THEN rejected("INTERNAL_SERVER_ERROR", "Clock error")
        ELSE LET stamped == [stores EXCEPT !.hlc = r.ts]
                 event == AppendLocalEvent(stores.sequences[CreateNode], CreateNode,
                                           entity_id, r.ts, payload)
                 appended == [stamped EXCEPT
                                !.events = TableInsert(@, event),
                                !.sequences[CreateNode] = event.id.sequence]
        IN  IF fault = "append_local"
            THEN [status |-> "INTERNAL_SERVER_ERROR", message |-> "Storage error",
                  stores |-> stamped]
            ELSE IF fault = "upsert"
            THEN [status |-> "INTERNAL_SERVER_ERROR", message |-> "Storage error",
                  stores |-> appended]
            ELSE [status |-> "CREATED", message |-> "Marker created",
                  stores |-> [appended EXCEPT
                                !.entities = EntityUpsert(@, EntityFromEvent(event))]]

\* One create_marker request, from the form to the response.  A request
\* that is rejected reads neither the physical clock nor the storage.
CreateMarker(form, physical, fault) ==
    /\ create_call.calls < MaxCreateCalls
    /\ fault # "get"
    /\ (ValidatePayload(UpsertPayload(form)) # Ok \/ form.icon_id \notin Icons)
            => physical = 1 /\ fault = "none"
    /\ \E out \in { CreateMarkerOutcome(CreateStores, form, physical, fault,
                                         uuids + 1) } :
        LET stamps == out.message \in {"Storage error", "Marker created"}
        IN  /\ stamps => TotalLoad < MaxLocalEvents /\ uuids < MaxEntities
            /\ state_hlc' = [state_hlc EXCEPT ![CreateNode] = out.stores.hlc]
            /\ events_table' = [events_table EXCEPT ![CreateNode] = out.stores.events]
            /\ sequences_table' =
                   [sequences_table EXCEPT ![CreateNode] = out.stores.sequences]
            /\ entities_table' =
                   [entities_table EXCEPT ![CreateNode] = out.stores.entities]
            /\ uuids' = IF stamps THEN uuids + 1 ELSE uuids
            /\ create_call' = [kind |-> "create_marker", calls |-> create_call.calls + 1,
                               form |-> {form},
                               entity_id |-> IF stamps THEN {uuids + 1} ELSE {},
                               physical |-> IF out.message \in {"Validation error",
                                                                "Icon not found"}
                                            THEN {} ELSE {physical},
                               status |-> out.status, message |-> out.message,
                               before |-> {CreateStores}]
    /\ UNCHANGED <<clock, checkpoints_table, handler, replicator>>
    /\ UNCHANGED <<hlcVars, ckptVars, matVars, logVars, viewVars, replayVars, storeVars,
                   runVars, rateVars>>

\* The marker of the peer: its first event, stamped by the peer's clock.
RemoteEntity == MaxEntities + 1

RemoteMarkerEvents ==
    { Event(EventId(Peer(CreateNode), 1), RemoteEntity,
            HlcTimestamp(w, 0, Peer(CreateNode)), UpsertPayload(BaseForm)) :
        w \in CreatePhysicalTimes }

\* The ids of delete requests: Path(id) is the text of a UUID, {n}, or a
\* text that Uuid::parse_str rejects, {}.
DeleteIds == { {} } \cup { {n} : n \in 1..RemoteEntity }

\* The response and the stores after delete_marker has run on `stores`.
\* A lookup that takes every stored entity for a live one.
AlreadyDeletedIgnored(found) == FALSE

\* delete_marker, lines 134-137: the looked-up entity is stored as deleted.
AlreadyDeleted(found) == \E x \in found : x.deleted

DeleteMarkerOutcome(stores, id, physical, fault) ==
    LET rejected(status, message) ==
            [status |-> status, message |-> message, stores |-> stores]
    IN  IF id = {}
        THEN rejected("BAD_REQUEST", "Invalid marker ID")
        ELSE LET entity_id == CHOOSE n \in id : TRUE
                 found == EntityGet(stores.entities, entity_id)
        IN  IF fault = "get"
            THEN rejected("INTERNAL_SERVER_ERROR", "Storage error")
            ELSE IF found = {}
            THEN rejected("NOT_FOUND", "Marker not found")
            ELSE IF AlreadyDeleted(found)
            THEN rejected("NOT_FOUND", "Marker already deleted")
            ELSE LET r == HlcNow(stores.hlc, physical, CreateNode) IN
            IF ~r.ok
            THEN rejected("INTERNAL_SERVER_ERROR", "Clock error")
            ELSE LET stamped == [stores EXCEPT !.hlc = r.ts]
                     event == AppendLocalEvent(stores.sequences[CreateNode], CreateNode,
                                               entity_id, r.ts, TombstonePayload)
                     appended == [stamped EXCEPT
                                    !.events = TableInsert(@, event),
                                    !.sequences[CreateNode] = event.id.sequence]
            IN  IF fault = "append_local"
                THEN [status |-> "INTERNAL_SERVER_ERROR", message |-> "Storage error",
                      stores |-> stamped]
                ELSE IF fault = "upsert"
                THEN [status |-> "INTERNAL_SERVER_ERROR", message |-> "Storage error",
                      stores |-> appended]
                ELSE [status |-> "OK", message |-> "Marker deleted",
                      stores |-> [appended EXCEPT
                                    !.entities = EntityUpsert(@, EntityFromEvent(event))]]

\* One delete_marker request, from the id to the response.  A request that
\* does not reach the clock reads no physical time, and one that does not
\* reach the event log meets no storage error after the get.
DeleteMarker(id, physical, fault) ==
    /\ create_call.calls < MaxCreateCalls
    /\ \E out \in { DeleteMarkerOutcome(CreateStores, id, physical, fault) } :
           LET stamps == out.stores.events # events_table[CreateNode]
                            \/ (out.message = "Storage error" /\ fault = "append_local")
               clocked == stamps \/ out.message = "Clock error"
           IN  /\ ~clocked => physical = 1 /\ fault \in {"none", "get"}
               /\ id = {} => fault = "none"
               /\ stamps => TotalLoad < MaxLocalEvents
               /\ state_hlc' = [state_hlc EXCEPT ![CreateNode] = out.stores.hlc]
               /\ events_table' = [events_table EXCEPT ![CreateNode] = out.stores.events]
               /\ sequences_table' =
                      [sequences_table EXCEPT ![CreateNode] = out.stores.sequences]
               /\ entities_table' =
                      [entities_table EXCEPT ![CreateNode] = out.stores.entities]
               /\ create_call' = [kind |-> "delete_marker", calls |-> create_call.calls + 1,
                                  form |-> {}, entity_id |-> id,
                                  physical |-> IF clocked THEN {physical} ELSE {},
                                  status |-> out.status, message |-> out.message,
                                  before |-> {CreateStores}]
               /\ UNCHANGED <<clock, checkpoints_table, handler, replicator, uuids>>
               /\ UNCHANGED <<hlcVars, ckptVars, matVars, logVars, viewVars, replayVars,
                              storeVars, runVars, rateVars>>

\* A sync cycle of the node's replicator that is answered with the peer's
\* marker and runs to its end (pull.rs 99-142).
CreateSync(event) ==
    /\ create_call.calls < MaxCreateCalls
    /\ LastSeqFor(checkpoints_table[CreateNode], Peer(CreateNode)) = 0
    /\ LET a == StoreAppend(events_table[CreateNode], sequences_table[CreateNode], event)
       IN  /\ events_table' = [events_table EXCEPT ![CreateNode] = a.events]
           /\ sequences_table' = [sequences_table EXCEPT ![CreateNode] = a.sequences]
    /\ entities_table' = [entities_table EXCEPT ![CreateNode] =
                             ReplicatorUpsert(@, event)]
    /\ checkpoints_table' = [checkpoints_table EXCEPT ![CreateNode] =
                                UpdateContiguous(@, Peer(CreateNode), <<event>>)]
    /\ create_call' = [kind |-> "sync", calls |-> create_call.calls + 1, form |-> {},
                       entity_id |-> {event.entity_id}, physical |-> {},
                       status |-> "Ok", message |-> "none", before |-> {CreateStores}]
    /\ UNCHANGED <<clock, state_hlc, handler, replicator, uuids>>
    /\ UNCHANGED <<hlcVars, ckptVars, matVars, logVars, viewVars, replayVars, storeVars,
                   runVars, rateVars>>

(***************************************************************************)
(* Claims about create_marker and delete_marker (SpecCreate).              *)
(***************************************************************************)
\* The input that fails validation, in the words of the claim.
FailsValidation(form) ==
    \/ form.lat.nan \/ form.lat.v < -MaxLatitude \/ form.lat.v > MaxLatitude
    \/ form.lon.nan \/ form.lon.v < -MaxLongitude \/ form.lon.v > MaxLongitude
    \/ form.icon_id = <<>>
    \/ Len(form.icon_id) > MaxIconIdLen
    \/ \E i \in 1..Len(form.icon_id) :
          form.icon_id[i] \notin AsciiAlphanumeric \cup {"_", "-"}
    \/ form.icon_id \notin Icons
    \/ \E l \in form.label : Len(l) > MaxLabelLen

\* C20: createMarker with input that fails validation returns a validation
\* error, and the clock's last timestamp, the event log, the sequence
\* high-watermark and the entity view are what they were before the call.
C20_InvalidCreateRejected ==
    create_call.kind = "create_marker" =>
        \A form \in create_call.form :
            FailsValidation(form) =>
                /\ create_call.status = "BAD_REQUEST"
                /\ create_call.before = {CreateStores}

\* A request with invalid input has been answered by a node that had
\* created a marker before.
C20_Witness ==
    /\ create_call.kind = "create_marker"
    /\ \E form \in create_call.form : FailsValidation(form)
    /\ create_call.status = "BAD_REQUEST"
    /\ events_table[CreateNode] # {}
    /\ entities_table[CreateNode] # {}

\* C21: a createMarker or deleteMarker request that fails with a clock
\* error or a storage error leaves the event log, the sequence
\* high-watermark and the entity view as they were before the request.
C21_FailedRequestChangesNothing ==
    (/\ create_call.kind \in {"create_marker", "delete_marker"}
     /\ create_call.status = "INTERNAL_SERVER_ERROR")
        => \A b \in create_call.before :
              /\ b.events = events_table[CreateNode]
              /\ b.sequences = sequences_table[CreateNode]
              /\ b.entities = entities_table[CreateNode]

\* The entity a delete request names is absent from the view `entities` or
\* stored there as deleted.
AbsentOrTombstoned(entities, id) ==
    \A n \in id : \A x \in EntityGet(entities, n) : x.deleted

FreshStores ==
    [hlc |-> HlcZero(CreateNode), events |-> {}, sequences |-> ZeroCheckpoint,
     entities |-> {}]

\* C26: on a fresh node with id 1 a valid createMarker produces exactly one
\* logged event, with EventId (1,1), HLC (physical now, 0, 1) and an Upsert
\* payload, and the view then holds exactly one entity, of the new id, not
\* deleted, whose hlc and source_event are those of the event.
C26_FirstCreateOnFreshNode ==
    (/\ create_call.kind = "create_marker"
     /\ create_call.status = "CREATED"
     /\ create_call.before = {FreshStores})
        => \E e \in events_table[CreateNode], x \in entities_table[CreateNode] :
              /\ events_table[CreateNode] = {e}
              /\ e.id = EventId(1, 1)
              /\ \A p \in create_call.physical : e.hlc = HlcTimestamp(p, 0, 1)
              /\ e.payload.type = "Upsert"
              /\ create_call.form = {e.payload.data}
              /\ sequences_table[CreateNode][1] = 1
              /\ entities_table[CreateNode] = {x}
              /\ create_call.entity_id = {x.id}
              /\ e.entity_id = x.id
              /\ ~x.deleted
              /\ x.hlc = e.hlc
              /\ x.source_event = e.id

\* The first request of a fresh node was a valid create, read the late
\* clock reading and has been answered with CREATED.
C26_Witness ==
    /\ create_call.kind = "create_marker"
    /\ create_call.status = "CREATED"
    /\ create_call.before = {FreshStores}
    /\ create_call.physical = {MaxClock + 1}
    /\ Cardinality(entities_table[CreateNode]) = 1

\* C30: when deleteMarker(entity_id) returns success, the node's view holds
\* entity_id with deleted = true directly afterwards, whatever local writes
\* and sync cycles came before.
C30_DeletedAfterSuccessfulDelete ==
    (/\ create_call.kind = "delete_marker"
     /\ create_call.status = "OK")
        => \E x \in entities_table[CreateNode] :
              x.id \in create_call.entity_id /\ x.deleted

(***************************************************************************)
(* SpecStore: one event log, empty at first, kept in a RedbEventStore and  *)
(* in an InMemoryEventStore side by side.  At most MaxStoreEvents events   *)
(* of the nodes of NodeIds are written to both, in any order: by append,   *)
(* with the sequences 1..MaxStoreSeq and u64::MAX, or by append_local.     *)
(* Between the appends get_events_since is called on both stores and the   *)
(* pull endpoint of node StoreNode on the redb store, with since_seq up    *)
(* to u64::MAX.  The build either wraps or panics on integer overflow.     *)
(***************************************************************************)
MaxStoreSeq == 2
MaxStoreEvents == 2
StoreNode == 1

\* the sequences of the events appended: those of the model, and u64::MAX
StoreSeqs == 1..MaxStoreSeq \cup {U64Max}

StoreEventOf(n, s) ==
    Event(EventId(n, s), s, HlcTimestamp(s, 0, n), UpsertPayload(MarkerData))

StoreEvents == { StoreEventOf(n, s) : n \in NodeIds, s \in StoreSeqs }

\* since_seq of a call: the sequences of the model, and u64::MAX
StoreSinceSeqs == 0..MaxStoreSeq \cup {U64Max}

\* the limit of a pull request
StoreLimits == 0..PullLimit

NoStoreCall ==
    [kind |-> "none", node_id |-> 0, since_seq |-> 0, limit |-> 0, failed |-> FALSE,
     panicked |-> FALSE, redb |-> <<>>, memory |-> <<>>, has_more |-> FALSE]

IdleStoreVars ==
    /\ store_events = {}
    /\ store_sequences = ZeroCheckpoint
    /\ mem_events = <<>>
    /\ mem_sequences = ZeroCheckpoint
    /\ overflow_checks = FALSE
    /\ store_call = NoStoreCall

InitStoreVars ==
    /\ store_events = {}
    /\ store_sequences = ZeroCheckpoint
    /\ mem_events = <<>>
    /\ mem_sequences = ZeroCheckpoint
    /\ overflow_checks \in BOOLEAN
    /\ store_call = NoStoreCall

\* InMemoryEventStore::append (storage.rs 124-146)
MemoryAppend(events, sequences, event) ==
    IF \E i \in 1..Len(events) : events[i].id = event.id
    THEN [events |-> events, sequences |-> sequences, inserted |-> FALSE]
    ELSE [events |-> Append(events, event),
          sequences |-> IF event.id.sequence > sequences[event.id.node_id]
                        THEN [sequences EXCEPT ![event.id.node_id] = event.id.sequence]
                        ELSE sequences,
          inserted |-> TRUE]

\* append(event) on both stores
StoreAppendEvent(event) ==
    /\ Len(mem_events) < MaxStoreEvents
    /\ LET a == StoreAppend(store_events, store_sequences, event)
           m == MemoryAppend(mem_events, mem_sequences, event)
       IN  /\ store_events' = a.events
           /\ store_sequences' = a.sequences
           /\ mem_events' = m.events
           /\ mem_sequences' = m.sequences
    /\ store_call' = [NoStoreCall EXCEPT !.kind = "append", !.node_id = event.id.node_id,
                                         !.since_seq = event.id.sequence]
    /\ UNCHANGED overflow_checks
    /\ UNCHANGED <<hlcVars, ckptVars, matVars, logVars, sysVars, viewVars, replayVars,
                   createVars, runVars, rateVars>>

\* InMemoryEventStore::append_local (storage.rs 178-200)
MemoryAppendLocal(events, sequences, node_id, entity_id, hlc, payload) ==
    LET event == AppendLocalEvent(sequences[node_id], node_id, entity_id, hlc, payload)
    IN  [events |-> Append(events, event),
         sequences |-> [sequences EXCEPT ![node_id] = event.id.sequence]]

\* RedbEventStore::append_local (event_store.rs 205-260)
StoreAppendLocalOf(events, sequences, node_id, entity_id, hlc, payload) ==
    LET event == AppendLocalEvent(sequences[node_id], node_id, entity_id, hlc, payload)
    IN  [events |-> TableInsert(events, event),
         sequences |-> [sequences EXCEPT ![node_id] = event.id.sequence]]

\* append_local(node_id, ..) on both stores; the entity and the HLC of the
\* event are those StoreEventOf gives its sequence.  Where current_seq + 1
\* overflows and the build checks for it, the call panics and neither
\* store changes.
StoreAppendLocal(node_id) ==
    /\ Len(mem_events) < MaxStoreEvents
    /\ \E panicked \in { overflow_checks /\ OverflowPanics(store_sequences[node_id]) } :
       \E s \in { WrappingInc(store_sequences[node_id]) } :
       \E t \in { WrappingInc(mem_sequences[node_id]) } :
       \E a \in { StoreAppendLocalOf(store_events, store_sequences, node_id, s,
                                     HlcTimestamp(s, 0, node_id),
                                     UpsertPayload(MarkerData)) } :
       \E m \in { MemoryAppendLocal(mem_events, mem_sequences, node_id, t,
                                    HlcTimestamp(t, 0, node_id),
                                    UpsertPayload(MarkerData)) } :
          /\ store_events' = IF panicked THEN store_events ELSE a.events
          /\ store_sequences' = IF panicked THEN store_sequences ELSE a.sequences
          /\ mem_events' = IF panicked THEN mem_events ELSE m.events
          /\ mem_sequences' = IF panicked THEN mem_sequences ELSE m.sequences
          /\ store_call' = [NoStoreCall EXCEPT !.kind = "append_local",
                                               !.node_id = node_id,
                                               !.since_seq = s,
                                               !.panicked = panicked]
    /\ UNCHANGED overflow_checks
    /\ UNCHANGED <<hlcVars, ckptVars, matVars, logVars, sysVars, viewVars, replayVars,
                   createVars, runVars, rateVars>>

\* get_events_since(node_id, since_seq) on both stores
StoreGetEventsSince(node_id, since_seq) ==
    /\ store_call' =
          LET panicked == overflow_checks /\ OverflowPanics(since_seq)
          IN  [NoStoreCall EXCEPT
                 !.kind = "get_events_since", !.node_id = node_id,
                 !.since_seq = since_seq, !.panicked = panicked,
                 !.redb = IF panicked THEN <<>>
                          ELSE GetEventsSince(store_events, node_id, since_seq),
                 !.memory = MemoryGetEventsSince(mem_events, node_id, since_seq)]
    /\ UNCHANGED <<store_events, store_sequences, mem_events, mem_sequences,
                   overflow_checks>>
    /\ UNCHANGED <<hlcVars, ckptVars, matVars, logVars, sysVars, viewVars, replayVars,
                   createVars, runVars, rateVars>>

\* GET /replication/events?since_seq=..&limit=.. on the node whose log the
\* redb store is (routes/replication.rs 31-44); `failed`: the read of the
\* store returns a storage error.
StoreGetEvents(since_seq, limit, failed) ==
    /\ store_call' =
          LET panicked == ~failed /\ overflow_checks /\ OverflowPanics(since_seq)
              result == IF failed THEN {}
                        ELSE { GetEventsSince(store_events, StoreNode, since_seq) }
              response == PullResponseOf(result, limit)
          IN  [NoStoreCall EXCEPT
                 !.kind = "get_events", !.node_id = StoreNode,
                 !.since_seq = since_seq, !.limit = limit, !.failed = failed,
                 !.panicked = panicked,
                 !.redb = IF panicked THEN <<>> ELSE response.events,
                 !.has_more = IF panicked THEN FALSE ELSE response.has_more]
    /\ UNCHANGED <<store_events, store_sequences, mem_events, mem_sequences,
                   overflow_checks>>
    /\ UNCHANGED <<hlcVars, ckptVars, matVars, logVars, sysVars, viewVars, replayVars,
                   createVars, runVars, rateVars>>

(***************************************************************************)
(* Claims about the event stores (SpecStore).                              *)
(***************************************************************************)
\* The sequence q holds exactly the events of S, each once, in ascending
\* order of sequence.
ExactlyAscending(q, S) ==
    /\ { q[i] : i \in 1..Len(q) } = S
    /\ \A i, j \in 1..Len(q) : i < j => q[i].id.sequence < q[j].id.sequence

\* The logged events of node_id after since_seq.
LoggedSince(node_id, since_seq) ==
    { e \in store_events : e.id.node_id = node_id /\ e.id.sequence > since_seq }

\* C25: get_events_since(node_id, since_seq) returns exactly the logged
\* events of node_id with sequence > since_seq, each once, in ascending
\* order of sequence, whatever the order of the appends, from the redb
\* store and from the in-memory store.
C25_EventsSinceExactAndAscending ==
    store_call.kind = "get_events_since"
        => /\ ~store_call.panicked
           /\ ExactlyAscending(store_call.redb,
                               LoggedSince(store_call.node_id, store_call.since_seq))
           /\ ExactlyAscending(store_call.memory,
                               LoggedSince(store_call.node_id, store_call.since_seq))

\* C29: the pull endpoint called with since_seq = N and limit = M answers
\* with at most M events, the M lowest of the node's events with sequence
\* > N in ascending order, and has_more is true exactly when more than M
\* such events exist.
C29_PullHonorsLimit ==
    store_call.kind = "get_events"
        => LET such == LoggedSince(StoreNode, store_call.since_seq)
               returned == { store_call.redb[i] : i \in 1..Len(store_call.redb) }
           IN  /\ ~store_call.panicked
               /\ Len(store_call.redb) <= store_call.limit
               /\ ExactlyAscending(store_call.redb, returned)
               /\ returned \subseteq such
               /\ \A e \in returned, f \in such \ returned :
                      e.id.sequence < f.id.sequence
               /\ Cardinality(returned) < store_call.limit => returned = such
               /\ store_call.has_more <=> Cardinality(such) > store_call.limit

\* C36: for every since_seq up to u64::MAX, get_events_since and the pull
\* endpoint compute since_seq + 1 without wrapping or panicking and return
\* only events with sequence > since_seq, so that since_seq = u64::MAX
\* yields no events.
C36_RangeBoundsDoNotWrap ==
    store_call.kind \in {"get_events_since", "get_events"}
        => /\ ~store_call.panicked
           /\ \A i \in 1..Len(store_call.redb) :
                  store_call.redb[i].id.sequence > store_call.since_seq

\* C37: the response of the pull endpoint of a node holds only events whose
\* origin is that node, whatever events of other origin its log holds.
C37_ResponseHoldsOwnEventsOnly ==
    store_call.kind = "get_events"
        => \A i \in 1..Len(store_call.redb) :
               store_call.redb[i].id.node_id = StoreNode

\* C37 witness: the log holds an event of another origin after since_seq,
\* and the endpoint has answered with events.
C37_Witness ==
    /\ store_call.kind = "get_events"
    /\ store_call.redb # <<>>
    /\ ~store_call.failed
    /\ \E e \in store_events :
           e.id.node_id # StoreNode /\ e.id.sequence > store_call.since_seq

\* The highest of the sequences of S, 0 when there is none.
MaxLoggedSeq(S) == IF S = {} THEN 0 ELSE CHOOSE m \in S : \A x \in S : x <= m

\* C33: after any sequence of append and append_local calls, none of which
\* panics, the high-watermark of every node (next_sequence - 1) is the
\* highest sequence among the logged events of that node, or 0 when there
\* is none, in the redb store and in the in-memory store; so an append
\* raises it only when its sequence exceeds it and a duplicate append
\* leaves it as it is.
C33_HighWatermarkIsMaxLogged ==
    /\ store_call.kind = "append_local" => ~store_call.panicked
    /\ \A n \in NodeIds :
          /\ store_sequences[n] =
                MaxLoggedSeq({ e.id.sequence : e \in { x \in store_events : x.id.node_id = n } })
          /\ mem_sequences[n] =
                MaxLoggedSeq({ mem_events[i].id.sequence :
                                 i \in { j \in 1..Len(mem_events) : mem_events[j].id.node_id = n } })

(***************************************************************************)
(* SpecRun: PullReplicator::run (pull.rs 145-165) on node RunNode, whose   *)
(* peer list is RunPeers.  Each peer serves a log of MaxRunSeq events of   *)
(* its own, all of the entity RunEntity, with wall times up to MaxRunWall  *)
(* that grow with the sequence.  A step is one call of sync_from_peer,     *)
(* which may fail at any of its storage or network calls, the return of    *)
(* sync_once, or the sleep.  The shutdown signal may be raised at any      *)
(* time.                                                                   *)
(***************************************************************************)
MaxRunSeq == 2
MaxRunWall == 3
RunNode == 3
RunPeers == <<1, 2>>
RunEntity == 1

\* The logs a peer may serve.
RunLogs(p) ==
    { { Event(EventId(p, s), RunEntity, HlcTimestamp(w[s], 0, p),
              UpsertPayload(IF p = 1 THEN MarkerData ELSE OtherMarkerData)) :
          s \in 1..MaxRunSeq } :
        w \in { f \in [1..MaxRunSeq -> 1..MaxRunWall] :
                  \A i, j \in 1..MaxRunSeq : i < j => f[i] < f[j] } }

\* Where a call of sync_from_peer fails: at get_checkpoint (line 103), at
\* pull_events (108), in pass `at` of the append loop (116-119) or of the
\* entity loop (122-134), at save_checkpoint (138-139), or nowhere.
RunFaults ==
    { [step |-> t, at |-> 0] :
        t \in {"none", "get_checkpoint", "pull_events", "save_checkpoint"} }
      \cup { [step |-> t, at |-> k] : t \in {"append", "upsert"}, k \in 1..PullLimit }

EmptyRunStores ==
    [events |-> {}, sequences |-> ZeroCheckpoint, entities |-> {},
     checkpoints |-> [p \in NodeIds |-> ZeroCheckpoint]]

NoStats ==
    [events_received |-> 0, entities_updated |-> 0, peers_synced |-> 0,
     peers_failed |-> 0]

\* run has been called: its first sync_once is about to poll the first peer.
RunStart(stores) ==
    [pc |-> "sync", i |-> 1, snapshot |-> stores, results |-> <<>>,
     stats |-> NoStats, returned |-> "none"]

NoRecovery == [failed |-> [p \in NodeIds |-> {}], recovered |-> {}]

\* The calls of sync_from_peer that failed after the response had arrived
\* (in the append loop, in the entity loop or at save_checkpoint), and the
\* successful call for the same peer that follows one.
RecoveryAfter(recovery, peer, response, fault, ok) ==
    [failed |->
        IF ok THEN [recovery.failed EXCEPT ![peer] = {}]
        ELSE IF fault.step \in {"append", "upsert", "save_checkpoint"}
             THEN [recovery.failed EXCEPT ![peer] = {response}]
             ELSE recovery.failed,
     recovered |->
        IF ok THEN { [peer |-> peer, response |-> r] : r \in recovery.failed[peer] }
        ELSE {}]

InitRunVars ==
    /\ run_logs \in [NodeIds -> UNION { RunLogs(p) : p \in NodeIds }]
    /\ \A p \in NodeIds : run_logs[p] \in RunLogs(p)
    /\ run_stores = EmptyRunStores
    /\ run = RunStart(EmptyRunStores)
    /\ run_shutdown = FALSE
    /\ run_recovery = NoRecovery

IdleRunVars ==
    /\ run_logs = [p \in NodeIds |-> {}]
    /\ run_stores = EmptyRunStores
    /\ run = RunStart(EmptyRunStores)
    /\ run_shutdown = FALSE
    /\ run_recovery = NoRecovery

\* lines 116-119: the first k passes of the append loop
RECURSIVE RunAppendLoop(_, _, _)
RunAppendLoop(stores, response, k) ==
    IF k = 0 THEN stores
    ELSE LET prev == RunAppendLoop(stores, response, k - 1)
             a == StoreAppend(prev.events, prev.sequences, response[k])
         IN  [prev EXCEPT !.events = a.events, !.sequences = a.sequences]

\* lines 122-134: the first k passes of the entity loop, and how many of
\* them reached the upsert
RECURSIVE RunEntityLoop(_, _, _)
RunEntityLoop(stores, response, k) ==
    IF k = 0 THEN [stores |-> stores, entities_updated |-> 0]
    ELSE LET prev == RunEntityLoop(stores, response, k - 1)
             skipped == \E x \in EntityGet(prev.stores.entities, response[k].entity_id) :
                            ~ShouldReplace(x, response[k])
         IN  [stores |-> [prev.stores EXCEPT
                            !.entities = ReplicatorUpsert(@, response[k])],
              entities_updated |-> IF skipped THEN prev.entities_updated
                                   ELSE prev.entities_updated + 1]

\* The response of the peer to the pull request of line 107.
RunResponse(stores, logs, peer) ==
    GetEventsResponse(logs[peer], peer,
                      LastSeqFor(stores.checkpoints[peer], peer), PullLimit).events

\* sync_from_peer (lines 99-142) with the peer's response, failing at `fault`
SyncFromPeer(stores, peer, response, fault) ==
    LET n == Len(response)
        failed(st) == [ok |-> FALSE, stores |-> st, events_received |-> 0,
                       entities_updated |-> 0]
    IN  IF fault.step \in {"get_checkpoint", "pull_events"}
        THEN failed(stores)
        ELSE IF n = 0
        THEN [ok |-> TRUE, stores |-> stores, events_received |-> 0,
              entities_updated |-> 0]
        ELSE IF fault.step = "append"
        THEN failed(RunAppendLoop(stores, response, fault.at - 1))
        ELSE LET appended == RunAppendLoop(stores, response, n) IN
        IF fault.step = "upsert"
        THEN failed(RunEntityLoop(appended, response, fault.at - 1).stores)
        ELSE LET upserted == RunEntityLoop(appended, response, n) IN
        IF fault.step = "save_checkpoint"
        THEN failed(upserted.stores)
        ELSE [ok |-> TRUE,
              stores |-> [upserted.stores EXCEPT
                            !.checkpoints[peer] =
                                UpdateContiguous(stores.checkpoints[peer], peer, response)],
              events_received |-> n,
              entities_updated |-> upserted.entities_updated]

\* A sync_once that gives up at the first peer that fails.
RunSyncFromPeerAborting(fault) ==
    /\ run.pc = "sync"
    /\ run.i <= Len(RunPeers)
    /\ \E peer \in { RunPeers[run.i] } :
       \E response \in { RunResponse(run_stores, run_logs, peer) } :
           /\ fault.step \in {"append", "upsert"} => fault.at <= Len(response)
           /\ response = <<>> => fault.step \in {"none", "get_checkpoint", "pull_events"}
           /\ \E out \in { SyncFromPeer(run_stores, peer, response, fault) } :
                /\ run_stores' = out.stores
                /\ run_recovery' = RecoveryAfter(run_recovery, peer, response, fault, out.ok)
                /\ run' = [run EXCEPT
                             !.i = IF out.ok THEN @ + 1 ELSE Len(RunPeers) + 1,
                             !.results = Append(@, [peer |-> peer, ok |-> out.ok,
                                                    response |-> response]),
                             !.stats = [events_received |-> @.events_received
                                                              + out.events_received,
                                        entities_updated |-> @.entities_updated
                                                               + out.entities_updated,
                                        peers_synced |-> @.peers_synced
                                                           + (IF out.ok THEN 1 ELSE 0),
                                        peers_failed |-> @.peers_failed
                                                           + (IF out.ok THEN 0 ELSE 1)]]
    /\ UNCHANGED <<run_logs, run_shutdown>>
    /\ UNCHANGED <<hlcVars, ckptVars, matVars, logVars, sysVars, viewVars, replayVars,
                   createVars, storeVars, rateVars>>

\* sync_once, lines 80-93: one pass of the loop over the peers
RunSyncFromPeer(fault) ==
    /\ run.pc = "sync"
    /\ run.i <= Len(RunPeers)
    /\ \E peer \in { RunPeers[run.i] } :
       \E response \in { RunResponse(run_stores, run_logs, peer) } :
           /\ fault.step \in {"append", "upsert"} => fault.at <= Len(response)
           /\ response = <<>> => fault.step \in {"none", "get_checkpoint", "pull_events"}
           /\ \E out \in { SyncFromPeer(run_stores, peer, response, fault) } :
                /\ run_stores' = out.stores
                /\ run_recovery' = RecoveryAfter(run_recovery, peer, response, fault, out.ok)
                /\ run' = [run EXCEPT
                             !.i = @ + 1,
                             !.results = Append(@, [peer |-> peer, ok |-> out.ok,
                                                    response |-> response]),
                             !.stats = [events_received |-> @.events_received
                                                              + out.events_received,
                                        entities_updated |-> @.entities_updated
                                                               + out.entities_updated,
                                        peers_synced |-> @.peers_synced
                                                           + (IF out.ok THEN 1 ELSE 0),
                                        peers_failed |-> @.peers_failed
                                                           + (IF out.ok THEN 0 ELSE 1)]]
    /\ UNCHANGED <<run_logs, run_shutdown>>
    /\ UNCHANGED <<hlcVars, ckptVars, matVars, logVars, sysVars, viewVars, replayVars,
                   createVars, storeVars, rateVars>>

\* sync_once, line 95, and run, lines 147-160: the cycle returns Ok(stats)
\* and run goes to sleep.
RunSyncOnceReturns ==
    /\ run.pc = "sync"
    /\ run.i > Len(RunPeers)
    /\ run' = [run EXCEPT !.pc = "sleep", !.returned = "Ok"]
    /\ UNCHANGED <<run_logs, run_stores, run_shutdown, run_recovery>>
    /\ UNCHANGED <<hlcVars, ckptVars, matVars, logVars, sysVars, viewVars, replayVars,
                   createVars, storeVars, rateVars>>

\* run, line 162: the sleep is over and the loop starts the next sync_once.
RunSleep ==
    /\ run.pc = "sleep"
    /\ run' = RunStart(run_stores)
    /\ UNCHANGED <<run_logs, run_stores, run_shutdown, run_recovery>>
    /\ UNCHANGED <<hlcVars, ckptVars, matVars, logVars, sysVars, viewVars, replayVars,
                   createVars, storeVars, rateVars>>

\* The environment raises the shutdown signal.  Nothing in run or in main
\* (main.rs 63-79) reads it.
RunShutdown ==
    /\ ~run_shutdown
    /\ run_shutdown' = TRUE
    /\ UNCHANGED <<run_logs, run_stores, run, run_recovery>>
    /\ UNCHANGED <<hlcVars, ckptVars, matVars, logVars, sysVars, viewVars, replayVars,
                   createVars, storeVars, rateVars>>

(***************************************************************************)
(* Claims about the run loop (SpecRun, SpecRunFair).                       *)
(***************************************************************************)
\* The stores the cycle would have left had the peers whose call failed
\* not been in the list: the calls that succeeded, in their order, applied
\* to the stores of the start of the cycle.
RECURSIVE RunWithoutFailing(_, _, _)
RunWithoutFailing(stores, results, k) ==
    IF k = 0 THEN stores
    ELSE LET prev == RunWithoutFailing(stores, results, k - 1)
             r == results[k]
         IN  IF r.ok
             THEN SyncFromPeer(prev, r.peer, r.response, [step |-> "none", at |-> 0]).stores
             ELSE prev

\* A cycle has returned in which the call for some peer failed.
CycleWithFailureDone ==
    /\ run.pc = "sleep"
    /\ \E k \in 1..Len(run.results) : ~run.results[k].ok

\* The peers of the cycle whose call succeeded.
OtherPeers == { run.results[k].peer : k \in { j \in 1..Len(run.results) : run.results[j].ok } }

\* Every peer of the list was polled, in the order of the list, and the
\* cycle returned Ok.
AllPolledAndOk ==
    /\ run.returned = "Ok"
    /\ Len(run.results) = Len(RunPeers)
    /\ \A k \in 1..Len(RunPeers) : run.results[k].peer = RunPeers[k]

\* The events and the checkpoints of the peers whose call succeeded are
\* those of `reference`.
SameEventsAndCheckpoints(reference) ==
    \A p \in OtherPeers :
        /\ { e \in run_stores.events : e.id.node_id = p }
              = { e \in reference.events : e.id.node_id = p }
        /\ run_stores.sequences[p] = reference.sequences[p]
        /\ run_stores.checkpoints[p] = reference.checkpoints[p]

\* The entity ids the responses of the peers whose call succeeded touch.
OtherEntityIds ==
    UNION { { run.results[k].response[j].entity_id :
                j \in 1..Len(run.results[k].response) } :
            k \in { i \in 1..Len(run.results) : run.results[i].ok } }

\* C23 as stated: after a cycle in which the call for one peer failed, every
\* peer was polled, the cycle returned Ok, and the events, entities and
\* checkpoints written for the other peers are those of the cycle without
\* the failing peer.
C23_Original ==
    CycleWithFailureDone
        => LET reference == RunWithoutFailing(run.snapshot, run.results,
                                              Len(run.results))
           IN  /\ AllPolledAndOk
               /\ SameEventsAndCheckpoints(reference)
               /\ \A id \in OtherEntityIds :
                      EntityGet(run_stores.entities, id) = EntityGet(reference.entities, id)

\* C23, amended: as C23_Original, except that an entity of the other peers
\* may instead be the one of an event that the failing call applied before
\* it failed, when that event has the greater HLC.
C23_FailureDoesNotStopCycle ==
    CycleWithFailureDone
        => LET reference == RunWithoutFailing(run.snapshot, run.results,
                                              Len(run.results))
           IN  /\ AllPolledAndOk
               /\ SameEventsAndCheckpoints(reference)
               /\ \A id \in OtherEntityIds :
                    \/ EntityGet(run_stores.entities, id) = EntityGet(reference.entities, id)
                    \/ \E x \in EntityGet(run_stores.entities, id) :
                          /\ x.source_event.node_id \notin OtherPeers
                          /\ \A y \in EntityGet(reference.entities, id) : HlcLess(y.hlc, x.hlc)

\* The call for the first peer failed after it had written to the log, the
\* second peer was polled and its events and checkpoint were written, and
\* the cycle has returned.
C23_Witness ==
    /\ run.pc = "sleep"
    /\ Len(run.results) = 2
    /\ ~run.results[1].ok
    /\ run.results[2].ok
    /\ run.results[2].response # <<>>
    /\ \E e \in run_stores.events : e.id.node_id = RunPeers[1]
    /\ run_stores.checkpoints[RunPeers[2]][RunPeers[2]] = MaxRunSeq
    /\ run_stores.checkpoints[RunPeers[1]][RunPeers[1]] = 0

\* C28: once the shutdown signal is raised, run returns (within one
\* iteration of its loop).
C28_ShutdownEndsRun == run_shutdown ~> (run.pc = "returned")

\* C35: recovery after a failed sync.  When a call of sync_from_peer has
\* failed after its response arrived and before the checkpoint was saved,
\* then after the next successful call for that peer every event of the
\* earlier response is in the log and, for every entity those events
\* touch, the view holds the entity with the maximum HLC among the logged
\* events of that entity.
C35_RecoveryAfterFailedSync ==
    \A r \in run_recovery.recovered :
        \A k \in 1..Len(r.response) :
            /\ r.response[k] \in run_stores.events
            /\ \E x \in run_stores.entities :
                  /\ x.id = r.response[k].entity_id
                  /\ \A e \in run_stores.events :
                        e.entity_id = x.id => HlcLeq(e.hlc, x.hlc)
                  /\ \E e \in run_stores.events :
                        e.entity_id = x.id /\ e.hlc = x.hlc

(***************************************************************************)
(* SpecRate: one RateLimiter (middleware/rate_limit.rs) with max_requests  *)
(* in 1..MaxRequests and a window of WindowTicks ticks of the monotonic    *)
(* clock, as the handlers share it: each of the tasks of RateTasks calls   *)
(* check(ip) for an ip of RateIps, at most MaxRateCalls calls in all.  A   *)
(* call reads Instant::now() first (line 28) and takes the entry of the    *)
(* ip, which DashMap locks until check returns, after that (lines 30-47),  *)
(* so that calls may take the entry in another order than they read the    *)
(* clock.  cleanup is never called by the server.                          *)
(***************************************************************************)
MaxRequests == 2
WindowTicks == 2
MaxRateTime == 3
MaxRateCalls == 4
RateIps == {1, 2}
RateTasks == {1, 2}

IdleRateTask == [pc |-> "idle", ip |-> 0, now |-> 0]

IdleRateVars ==
    /\ rl_max_requests = 1
    /\ rl_now = 0
    /\ rl_requests = [ip \in RateIps |-> {}]
    /\ rl_task = [t \in RateTasks |-> IdleRateTask]
    /\ rl_log = <<>>

InitRateVars ==
    /\ rl_max_requests \in 1..MaxRequests
    /\ rl_now = 0
    /\ rl_requests = [ip \in RateIps |-> {}]
    /\ rl_task = [t \in RateTasks |-> IdleRateTask]
    /\ rl_log = <<>>

\* now.duration_since(last): zero when `last` is later than `now`
DurationSince(now, last) == IF now >= last THEN now - last ELSE 0

\* A check that lets a request pass while count = max_requests.
RateCheckOffByOne(requests, max_requests, window, ip, now) ==
    LET entry == IF requests[ip] = {} THEN [last |-> now, count |-> 0]
                 ELSE CHOOSE e \in requests[ip] : TRUE
    IN  IF DurationSince(now, entry.last) >= window
        THEN [ok |-> TRUE,
              requests |-> [requests EXCEPT ![ip] = { [last |-> now, count |-> 1] }]]
        ELSE IF entry.count > max_requests
        THEN [ok |-> FALSE, requests |-> [requests EXCEPT ![ip] = {entry}]]
        ELSE [ok |-> TRUE,
              requests |-> [requests EXCEPT ![ip] = { [entry EXCEPT !.count = @ + 1] }]]

\* RateLimiter::check, lines 30-47, with the `now` of line 28: the entry of
\* the ip, inserted as (now, 0) when missing; the reset when the window has
\* passed; the refusal when count has reached max_requests; else the count.
RateCheck(requests, max_requests, window, ip, now) ==
    LET entry == IF requests[ip] = {} THEN [last |-> now, count |-> 0]
                 ELSE CHOOSE e \in requests[ip] : TRUE
    IN  IF DurationSince(now, entry.last) >= window
        THEN [ok |-> TRUE,
              requests |-> [requests EXCEPT ![ip] = { [last |-> now, count |-> 1] }]]
        ELSE IF entry.count >= max_requests
        THEN [ok |-> FALSE, requests |-> [requests EXCEPT ![ip] = {entry}]]
        ELSE [ok |-> TRUE,
              requests |-> [requests EXCEPT ![ip] = { [entry EXCEPT !.count = @ + 1] }]]

\* The monotonic clock advances.
RateTick ==
    /\ rl_now < MaxRateTime
    /\ rl_now' = rl_now + 1
    /\ UNCHANGED <<rl_max_requests, rl_requests, rl_task, rl_log>>
    /\ UNCHANGED <<hlcVars, ckptVars, matVars, logVars, sysVars, viewVars, replayVars,
                   createVars, storeVars, runVars>>

\* check(ip), line 28: let now = Instant::now()
RateNow(t, ip) ==
    /\ rl_task[t].pc = "idle"
    /\ Len(rl_log) + Cardinality({ u \in RateTasks : rl_task[u].pc = "timed" })
          < MaxRateCalls
    /\ rl_task' = [rl_task EXCEPT ![t] = [pc |-> "timed", ip |-> ip, now |-> rl_now]]
    /\ UNCHANGED <<rl_max_requests, rl_now, rl_requests, rl_log>>
    /\ UNCHANGED <<hlcVars, ckptVars, matVars, logVars, sysVars, viewVars, replayVars,
                   createVars, storeVars, runVars>>

\* check(ip), lines 30-47, under the lock of the entry; the call returns.
RateCheckEntry(t) ==
    /\ rl_task[t].pc = "timed"
    /\ \E out \in { RateCheck(rl_requests, rl_max_requests, WindowTicks,
                              rl_task[t].ip, rl_task[t].now) } :
          /\ rl_requests' = out.requests
          /\ rl_log' = Append(rl_log,
                              [ip |-> rl_task[t].ip, now |-> rl_task[t].now,
                               ok |-> out.ok,
                               start |-> (CHOOSE e \in out.requests[rl_task[t].ip] :
                                             TRUE).last])
    /\ rl_task' = [rl_task EXCEPT ![t] = IdleRateTask]
    /\ UNCHANGED <<rl_max_requests, rl_now>>
    /\ UNCHANGED <<hlcVars, ckptVars, matVars, logVars, sysVars, viewVars, replayVars,
                   createVars, storeVars, runVars>>

(***************************************************************************)
(* Claims about the rate limiter (SpecRate).                               *)
(***************************************************************************)
\* The calls of the ip that returned before the i-th call of the log.
EarlierCalls(i) == { j \in 1..(i - 1) : rl_log[j].ip = rl_log[i].ip }

\* C39: for any sequence of check(ip) calls, the first call of an ip and
\* every call whose `now` is a window or more after the recorded window
\* start of its ip returns Ok and records its `now` as the new window
\* start; every other call leaves the window start as it is and returns Ok
\* exactly when fewer than max_requests calls of the ip have returned Ok in
\* that window, so that at most max_requests calls return Ok in one window
\* and every further one returns Err; the calls of other ips play no part.
C39_AtMostMaxPerWindow ==
    /\ \A i \in 1..Len(rl_log) :
          LET c == rl_log[i]
              earlier == EarlierCalls(i)
          IN  IF earlier = {}
              THEN c.ok /\ c.start = c.now
              ELSE LET j == CHOOSE m \in earlier : \A k \in earlier : k <= m
                       last == rl_log[j].start
                   IN  IF c.now - last >= WindowTicks
                       THEN c.ok /\ c.start = c.now
                       ELSE /\ c.start = last
                            /\ c.ok <=>
                                 Cardinality({ k \in earlier :
                                                 rl_log[k].start = last /\ rl_log[k].ok })
                                    < rl_max_requests
    /\ \A ip \in RateIps : \A s \in 0..MaxRateTime :
          Cardinality({ i \in 1..Len(rl_log) :
                          rl_log[i].ip = ip /\ rl_log[i].start = s /\ rl_log[i].ok })
             <= rl_max_requests

\* C39 witness: an ip has used up its window and was refused, a call of
\* another ip was let through after that, and a later call of the first ip,
\* a window after the start, was let through and started a new window.
C39_Witness ==
    \E i, j, k, m \in 1..Len(rl_log) :
        /\ i < j /\ j < k /\ k < m
        /\ rl_log[i].ip = rl_log[j].ip /\ rl_log[m].ip = rl_log[i].ip
        /\ rl_log[k].ip # rl_log[i].ip
        /\ rl_log[i].ok /\ ~rl_log[j].ok /\ rl_log[k].ok /\ rl_log[m].ok
        /\ rl_log[j].start = rl_log[i].start
        /\ rl_log[m].start >= rl_log[i].start + WindowTicks

(***************************************************************************)
(* The specifications.                                                     *)
(***************************************************************************)
NextHlc ==
    \/ \E p \in PhysicalTimes : Now(p)
    \/ \E p \in PhysicalTimes, r \in RemoteTimestamps : Receive(p, r)

NextCkpt ==
    \/ ApplyBatch
    \/ ApplyAgain
    \/ \E batch \in CkFollowBatches : ApplyFollowing(batch)

NextMat == MaterializeCall

NextLog ==
    \/ \E t \in AppendTasks : AppendLocalBegin(t)
    \/ \E t \in AppendTasks : AppendLocalCommit(t)
    \/ \E t \in AppendTasks : AppendLocalFail(t)
    \/ \E e \in LogRemoteEvents : AppendRemote(e)

InitHlc ==
    /\ InitHlcVars
    /\ IdleCkptVars
    /\ IdleMatVars
    /\ InitLogVars
    /\ InitSysVars
    /\ IdleReplayVars
    /\ IdleCreateVars
    /\ IdleStoreVars
    /\ IdleRunVars
    /\ IdleViewVars
    /\ IdleRateVars

SpecHlc == InitHlc /\ [][NextHlc]_vars

InitCkpt ==
    /\ InitHlcVars
    /\ InitCkptVars
    /\ IdleMatVars
    /\ InitLogVars
    /\ InitSysVars
    /\ IdleReplayVars
    /\ IdleCreateVars
    /\ IdleStoreVars
    /\ IdleRunVars
    /\ IdleViewVars
    /\ IdleRateVars

SpecCkpt == InitCkpt /\ [][NextCkpt]_vars

InitMat ==
    /\ InitHlcVars
    /\ IdleCkptVars
    /\ InitMatVars
    /\ InitLogVars
    /\ InitSysVars
    /\ IdleReplayVars
    /\ IdleCreateVars
    /\ IdleStoreVars
    /\ IdleRunVars
    /\ IdleViewVars
    /\ IdleRateVars

SpecMat == InitMat /\ [][NextMat]_vars

InitLog ==
    /\ InitHlcVars
    /\ IdleCkptVars
    /\ IdleMatVars
    /\ InitLogVars
    /\ InitSysVars
    /\ IdleReplayVars
    /\ IdleCreateVars
    /\ IdleStoreVars
    /\ IdleRunVars
    /\ IdleViewVars
    /\ IdleRateVars

SpecLog == InitLog /\ [][NextLog]_vars

NextSys ==
    \/ \E n \in NodeIds : Tick(n)
    \/ \E n \in NodeIds, t \in Handlers : CreateMarkerNow(n, t)
    \/ \E n \in NodeIds, t \in Handlers, id \in 1..MaxEntities : DeleteMarkerGet(n, t, id)
    \/ \E n \in NodeIds, t \in Handlers : DeleteMarkerNow(n, t)
    \/ \E n \in NodeIds, t \in Handlers : MarkerAppendLocal(n, t)
    \/ \E n \in NodeIds, t \in Handlers : MarkerUpsert(n, t)
    \/ \E n \in NodeIds, t \in Handlers : MarkerStorageError(n, t)
    \/ \E n \in NodeIds : SyncPull(n)
    \/ \E n \in NodeIds : SyncAppend(n)
    \/ \E n \in NodeIds : SyncUpsert(n)
    \/ \E n \in NodeIds : SyncSave(n)
    \/ \E n \in NodeIds : SyncFail(n)

Init ==
    /\ InitHlcVars
    /\ IdleCkptVars
    /\ IdleMatVars
    /\ InitLogVars
    /\ InitSysVars
    /\ IdleReplayVars
    /\ IdleCreateVars
    /\ IdleStoreVars
    /\ IdleRunVars
    /\ IdleViewVars
    /\ IdleRateVars

Spec == Init /\ [][NextSys]_vars

NextSync ==
    \/ \E response \in SyncResponses : SyncDeliver(response)
    \/ SyncAppend(SyncNode)
    \/ SyncUpsert(SyncNode)
    \/ SyncComplete
    \/ SyncFail(SyncNode)

InitSync ==
    /\ InitHlcVars
    /\ IdleCkptVars
    /\ IdleMatVars
    /\ InitLogVars
    /\ InitSysVars
    /\ IdleReplayVars
    /\ IdleCreateVars
    /\ IdleStoreVars
    /\ IdleRunVars
    /\ IdleViewVars
    /\ IdleRateVars

SpecSync == InitSync /\ [][NextSync]_vars

NextView ==
    \/ \E event \in ViewEvents : ViewUpsert(event)
    \/ \E event \in ViewEvents : ViewReplicate(event)

\* the events the handlers of the node produce, and those its peers serve
ViewLocalEvents == { e \in ViewEvents : e.id.node_id = CreateNode }
ViewRemoteEvents == { e \in ViewEvents : e.id.node_id # CreateNode }

NextViewTasks ==
    \/ \E event \in ViewLocalEvents : ViewUpsert(event)
    \/ \E event \in ViewRemoteEvents : ViewReplicateGet(event)
    \/ ViewReplicateUpsert

InitView ==
    /\ InitHlcVars
    /\ IdleCkptVars
    /\ IdleMatVars
    /\ InitLogVars
    /\ InitSysVars
    /\ IdleReplayVars
    /\ IdleCreateVars
    /\ IdleStoreVars
    /\ IdleRunVars
    /\ InitViewVars
    /\ IdleRateVars

SpecView == InitView /\ [][NextView]_vars

SpecViewTasks == InitView /\ [][NextViewTasks]_vars

NextCreate ==
    \/ \E form \in CreateForms, physical \in CreatePhysicalTimes,
          fault \in StorageFaults :
            CreateMarker(form, physical, fault)
    \/ \E id \in DeleteIds, physical \in CreatePhysicalTimes, fault \in StorageFaults :
            DeleteMarker(id, physical, fault)
    \/ \E event \in RemoteMarkerEvents : CreateSync(event)

InitCreate ==
    /\ InitHlcVars
    /\ IdleCkptVars
    /\ IdleMatVars
    /\ InitLogVars
    /\ InitSysVars
    /\ IdleReplayVars
    /\ IdleCreateVars
    /\ IdleStoreVars
    /\ IdleRunVars
    /\ IdleViewVars
    /\ IdleRateVars

SpecCreate == InitCreate /\ [][NextCreate]_vars

NextStore ==
    \/ \E event \in StoreEvents : StoreAppendEvent(event)
    \/ \E node_id \in NodeIds : StoreAppendLocal(node_id)
    \/ \E node_id \in NodeIds, since_seq \in StoreSinceSeqs :
          StoreGetEventsSince(node_id, since_seq)
    \/ \E since_seq \in StoreSinceSeqs, limit \in StoreLimits, failed \in BOOLEAN :
          StoreGetEvents(since_seq, limit, failed)

InitStore ==
    /\ InitHlcVars
    /\ IdleCkptVars
    /\ IdleMatVars
    /\ InitLogVars
    /\ InitSysVars
    /\ IdleReplayVars
    /\ IdleCreateVars
    /\ IdleViewVars
    /\ InitStoreVars
    /\ IdleRunVars
    /\ IdleRateVars

SpecStore == InitStore /\ [][NextStore]_vars

NextRun ==
    \/ \E fault \in RunFaults : RunSyncFromPeer(fault)
    \/ RunSyncOnceReturns
    \/ RunSleep
    \/ RunShutdown

InitRun ==
    /\ InitHlcVars
    /\ IdleCkptVars
    /\ IdleMatVars
    /\ InitLogVars
    /\ InitSysVars
    /\ IdleReplayVars
    /\ IdleCreateVars
    /\ IdleViewVars
    /\ IdleStoreVars
    /\ InitRunVars
    /\ IdleRateVars

SpecRun == InitRun /\ [][NextRun]_vars

\* The tokio runtime keeps scheduling the replicator's task: a step of run
\* that is possible is taken.
RunStep ==
    \/ \E fault \in RunFaults : RunSyncFromPeer(fault)
    \/ RunSyncOnceReturns
    \/ RunSleep

SpecRunFair == SpecRun /\ WF_vars(RunStep)

NextRate ==
    \/ RateTick
    \/ \E t \in RateTasks, ip \in RateIps : RateNow(t, ip)
    \/ \E t \in RateTasks : RateCheckEntry(t)

InitRate ==
    /\ InitHlcVars
    /\ IdleCkptVars
    /\ IdleMatVars
    /\ InitLogVars
    /\ InitSysVars
    /\ IdleReplayVars
    /\ IdleCreateVars
    /\ IdleViewVars
    /\ IdleStoreVars
    /\ IdleRunVars
    /\ InitRateVars

SpecRate == InitRate /\ [][NextRate]_vars

====
